---- MODULE Spec2Model ----
(***************************************************************************)
(* Model of the request-triage and fan-out core of barangaylink-system:    *)
(*   src/src/services/aiService.js  (AIService: the gateway operations and *)
(*   their rule-based fallbacks);                                          *)
(*   utils/socket.js, the first file of src/unnamed/part_000  (handshake,  *)
(*   rooms, events and the emit helpers).                                  *)
(*                                                                         *)
(* JavaScript strings are TLA+ strings; String.prototype.includes and      *)
(* toLowerCase are computed character by character.  Scores are fixed      *)
(* point numbers in ten-thousandths (0.94 is 9400): the IEEE-754 error of  *)
(* 0.9 + n * 0.02 and 0.7 + n * 0.05 is below 1e-15, far from the ties of  *)
(* toFixed(2), so the rounding of the code is the rounding computed here.  *)
(***************************************************************************)
EXTENDS Integers, Sequences, FiniteSets, TLC

VARIABLES
    pc,        \* position of the current call: "idle", "awaiting", "returned", "raised"
    op,        \* the AIService method that was called
    args,      \* its arguments
    response,  \* how the axios.post promise settled
    result,    \* the value the method returned
    logged,    \* levels of the logger records the method wrote, in order
    other,     \* a second request and its result, to compare two classifications
    now,       \* the clock read by new Date(), in milliseconds since the call
    posts,     \* number of axios.post calls the method has made
    io,        \* the module variable io of the socket module: "undefined" or "server"
    sockets,   \* every socket id: unused, refused, connected (with socket.user), disconnected
    rooms,     \* the adapter's rooms map: room key -> socket id -> number of entries
    sids,      \* the adapter's sids map: socket id -> set of room keys
    event,     \* the event handled or helper called last, and what it did
    db,        \* the tables written through prisma
    tasks      \* the handlers that wait for a promise to settle

gatewayVars == <<pc, op, args, response, result, logged, other, now, posts>>

socketVars == <<io, sockets, rooms, sids, event>>

storeVars == <<db, tasks>>

vars == <<pc, op, args, response, result, logged, other, now, posts,
          io, sockets, rooms, sids, event, db, tasks>>

(***************************************************************************)
(* Bounds                                                                  *)
(***************************************************************************)
MaxTitleWords == 2
MaxCompareWords == 1
MaxPopulation == 1001
MaxQueryWords == 2
MaxSessions == 2
MaxMessages == 1
MaxRequests == 1

(***************************************************************************)
(* JavaScript string operations                                            *)
(***************************************************************************)
UpperCaseLetters == "ABCDEFGHIJKLMNOPQRSTUVWXYZ"
LowerCaseLetters == "abcdefghijklmnopqrstuvwxyz"

CharAt(s, i) == SubSeq(s, i, i)

LowerChar(c) ==
    IF \E i \in 1..Len(UpperCaseLetters) : CharAt(UpperCaseLetters, i) = c
    THEN CharAt(LowerCaseLetters,
                CHOOSE i \in 1..Len(UpperCaseLetters) : CharAt(UpperCaseLetters, i) = c)
    ELSE c

RECURSIVE ToLowerCase(_)
ToLowerCase(s) ==
    IF Len(s) = 0 THEN ""
    ELSE LowerChar(CharAt(s, 1)) \o ToLowerCase(SubSeq(s, 2, Len(s)))

\* String.prototype.includes: keyword occurs as a contiguous substring of s
Includes(s, keyword) ==
    \E i \in 1..(Len(s) - Len(keyword) + 1) :
        SubSeq(s, i, i + Len(keyword) - 1) = keyword

MatchCountOccurrences(keywords, s) ==
    Cardinality({<<i, j>> \in (DOMAIN keywords) \X (1..Len(s)) :
                    /\ j + Len(keywords[i]) - 1 <= Len(s)
                    /\ SubSeq(s, j, j + Len(keywords[i]) - 1) = keywords[i]})
\* Array.prototype.filter(k => s.includes(k)).length
MatchCount(keywords, s) ==
    Cardinality({i \in DOMAIN keywords : Includes(s, keywords[i])})

(***************************************************************************)
(* Number formatting                                                       *)
(***************************************************************************)
Min(a, b) == IF a <= b THEN a ELSE b
Max(a, b) == IF a >= b THEN a ELSE b

\* parseFloat(score.toFixed(2)) on a score in ten-thousandths: the nearest
\* multiple of one hundredth, ties up
ToFixed2(score) == ((score + 50) \div 100) * 100

(***************************************************************************)
(* AIService.fallbackPrioritization                                        *)
(***************************************************************************)
emergencyKeywords ==
    << "emergency", "urgent", "critical", "accident", "fire",
       "flood", "earthquake", "blood", "heart attack", "stroke",
       "pregnant", "child", "baby", "missing", "danger",
       "dying", "emergency room", "hospital", "ambulance" >>

highPriorityKeywords ==
    << "medicine", "medication", "sick", "fever", "cough",
       "hungry", "starving", "food", "water", "shelter",
       "homeless", "evicted", "no electricity", "no water" >>

\* `${title} ${description}`.toLowerCase()
RequestText(requestData) ==
    ToLowerCase(requestData.title \o " " \o requestData.description)

\* Math.min(score, 0.99)
CapScoreAtOne(score) == Min(score, 10000)
CapScore(score) == Min(score, 9900)

PriorityAndScoreHighFirst(emergencyMatches, highPriorityMatches, category) ==
    IF highPriorityMatches > 0 \/ category = "MEDICAL" \/ category = "EMERGENCY"
    THEN [priority |-> "HIGH", score |-> 7000 + highPriorityMatches * 500]
    ELSE IF emergencyMatches > 0
    THEN [priority |-> "URGENT", score |-> 9000 + emergencyMatches * 200]
    ELSE IF category = "FOOD"
    THEN [priority |-> "HIGH", score |-> 7500]
    ELSE IF category = "EDUCATION" \/ category = "LEGAL"
    THEN [priority |-> "MEDIUM", score |-> 6000]
    ELSE [priority |-> "LOW", score |-> 4000]

PriorityAndScoreNoCategoryRule(emergencyMatches, highPriorityMatches, category) ==
    IF emergencyMatches > 0
    THEN [priority |-> "URGENT", score |-> 9000 + emergencyMatches * 200]
    ELSE IF highPriorityMatches > 0
    THEN [priority |-> "HIGH", score |-> 7000 + highPriorityMatches * 500]
    ELSE IF category = "FOOD"
    THEN [priority |-> "HIGH", score |-> 7500]
    ELSE IF category = "EDUCATION" \/ category = "LEGAL"
    THEN [priority |-> "MEDIUM", score |-> 6000]
    ELSE [priority |-> "LOW", score |-> 4000]

PriorityAndScoreFoodAsOther(emergencyMatches, highPriorityMatches, category) ==
    IF emergencyMatches > 0
    THEN [priority |-> "URGENT", score |-> 9000 + emergencyMatches * 200]
    ELSE IF highPriorityMatches > 0 \/ category = "MEDICAL" \/ category = "EMERGENCY"
    THEN [priority |-> "HIGH", score |-> 7000 + highPriorityMatches * 500]
    ELSE IF category = "EDUCATION" \/ category = "LEGAL" \/ category = "FOOD"
    THEN [priority |-> "MEDIUM", score |-> 6000]
    ELSE [priority |-> "LOW", score |-> 4000]

PriorityAndScoreSwappedBase(emergencyMatches, highPriorityMatches, category) ==
    IF emergencyMatches > 0
    THEN [priority |-> "URGENT", score |-> 9000 + emergencyMatches * 200]
    ELSE IF highPriorityMatches > 0 \/ category = "MEDICAL" \/ category = "EMERGENCY"
    THEN [priority |-> "HIGH", score |-> 7000 + highPriorityMatches * 500]
    ELSE IF category = "FOOD"
    THEN [priority |-> "HIGH", score |-> 7500]
    ELSE IF category = "EDUCATION" \/ category = "LEGAL"
    THEN [priority |-> "MEDIUM", score |-> 4000]
    ELSE [priority |-> "LOW", score |-> 6000]

PriorityAndScore(emergencyMatches, highPriorityMatches, category) ==
    IF emergencyMatches > 0
    THEN [priority |-> "URGENT", score |-> 9000 + emergencyMatches * 200]
    ELSE IF highPriorityMatches > 0 \/ category = "MEDICAL" \/ category = "EMERGENCY"
    THEN [priority |-> "HIGH", score |-> 7000 + highPriorityMatches * 500]
    ELSE IF category = "FOOD"
    THEN [priority |-> "HIGH", score |-> 7500]
    ELSE IF category = "EDUCATION" \/ category = "LEGAL"
    THEN [priority |-> "MEDIUM", score |-> 6000]
    ELSE [priority |-> "LOW", score |-> 4000]

Reason(emergencyMatches, highPriorityMatches, category) ==
    IF emergencyMatches > 0
    THEN "Contains " \o ToString(emergencyMatches) \o " emergency keyword(s)"
    ELSE IF highPriorityMatches > 0
    THEN "Contains " \o ToString(highPriorityMatches) \o " high-priority keyword(s)"
    ELSE "Category-based priority: " \o category

fallbackPrioritization(requestData) ==
    LET text == RequestText(requestData)
        emergencyMatches == MatchCount(emergencyKeywords, text)
        highPriorityMatches == MatchCount(highPriorityKeywords, text)
        ps == PriorityAndScore(emergencyMatches, highPriorityMatches,
                               requestData.category)
    IN  [ priority |-> ps.priority,
          score |-> ToFixed2(CapScore(ps.score)),
          reason |-> Reason(emergencyMatches, highPriorityMatches,
                            requestData.category),
          suggestedCategory |-> requestData.category ]

(***************************************************************************)
(* Requests the classifier is applied to                                   *)
(***************************************************************************)
TitleWords == {"Fire", "emergency", "room", "heart", "no", "water", "seafood"}

RECURSIVE Phrases(_)
Phrases(n) ==
    IF n = 0 THEN {""}
    ELSE LET shorter == Phrases(n - 1)
         IN  shorter \cup TitleWords
                     \cup {p \o " " \o w : p \in shorter \ {""}, w \in TitleWords}

Titles == Phrases(MaxTitleWords)

AllKeywordsText ==
    "emergency room, urgent and critical accident: fire, flood, earthquake, "
    \o "blood, heart attack, stroke, pregnant child, baby missing, danger, "
    \o "dying, hospital ambulance; medicine medication sick fever cough hungry "
    \o "starving food shelter homeless evicted, no electricity, no water"

Descriptions ==
    { "", "attack", "need help now",
      "URGENT: flood, child missing, blood, Hospital",
      "sick with fever",
      "medicine medication sick fever cough",
      "hungry, starving, homeless, evicted; no electricity and no food" }

Categories == {"MEDICAL", "EMERGENCY", "FOOD", "EDUCATION", "LEGAL", "OTHER", "food"}

Requests ==
    [title : Titles, description : Descriptions, category : Categories]
    \cup [title : {"Everything"}, description : {AllKeywordsText}, category : Categories]

NoArgs == [none |-> TRUE]
NoResponse == [settled |-> "none"]
NoResult == [none |-> TRUE]

(***************************************************************************)
(* The socket module: state before init(server) is called                  *)
(***************************************************************************)
SocketIds == {"s" \o ToString(i) : i \in 1..MaxSessions}

\* the rows of the user table the handshake looks up
Users ==
    { [id |-> "u1", email |-> "ana@brgy.ph", role |-> "ADMIN",
       isVerified |-> TRUE, isActive |-> TRUE],
      [id |-> "u2", email |-> "ben@brgy.ph", role |-> "MODERATOR",
       isVerified |-> TRUE, isActive |-> TRUE],
      [id |-> "u3", email |-> "cora@brgy.ph", role |-> "MEMBER",
       isVerified |-> TRUE, isActive |-> TRUE],
      [id |-> "u4", email |-> "dino@brgy.ph", role |-> "MEMBER",
       isVerified |-> FALSE, isActive |-> TRUE],
      [id |-> "u5", email |-> "ely@brgy.ph", role |-> "MODERATOR",
       isVerified |-> TRUE, isActive |-> FALSE] }

\* ids a client or a caller can name: the users above and one that is no row
UserIds == {u.id : u \in Users} \cup {"u9"}
Roles == {u.role : u \in Users}
RequestIds == {"r1"}
ChatIds == {"c1"}
\* room keys a client sends in place of a request id, and in place of a
\* chat id
ClientIds == {"admins", "user-u1"}
ClientChatIds == {"user-u1"}

RequestRoomAsSent(requestId) == requestId
UserRoom(userId) == "user-" \o userId
RequestRoom(requestId) == "request-" \o requestId
ChatRoom(chatId) == "chat-" \o chatId

RoomKeys ==
    SocketIds \cup {UserRoom(u) : u \in UserIds}
              \cup {ToLowerCase(r) : r \in Roles} \cup {"admins"}
              \cup {RequestRoom(r) : r \in RequestIds \cup ClientIds}
              \cup {ChatRoom(c) : c \in ChatIds \cup ClientChatIds}

NoEvent == [name |-> "none"]

NoStore ==
    /\ db = [messages |-> << >>, requests |-> << >>, notifications |-> << >>]
    /\ tasks = {}

NoSockets ==
    /\ io = "undefined"
    /\ sockets = [s \in SocketIds |-> [state |-> "unused"]]
    /\ rooms = [room \in RoomKeys |-> [s \in SocketIds |-> 0]]
    /\ sids = [s \in SocketIds |-> {}]
    /\ event = NoEvent

(***************************************************************************)
(* Direct calls of the fallback classifier                                 *)
(***************************************************************************)
InitClassify ==
    /\ pc = "idle"
    /\ op = "fallbackPrioritization"
    /\ args \in Requests
    /\ response = NoResponse
    /\ result = NoResult
    /\ logged = << >>
    /\ other = NoArgs
    /\ now = 0
    /\ posts = 0
    /\ NoSockets
    /\ NoStore

CallFallbackPrioritization ==
    /\ pc = "idle"
    /\ op = "fallbackPrioritization"
    /\ result' = fallbackPrioritization(args)
    /\ pc' = "returned"
    /\ UNCHANGED <<op, args, response, logged, other, now, posts>>
    /\ UNCHANGED <<socketVars, storeVars>>

NextClassify == CallFallbackPrioritization

SpecClassify == InitClassify /\ [][NextClassify]_vars

(***************************************************************************)
(* Direct calls of the fallback classifier on texts with repeated and      *)
(* overlapping keywords                                                    *)
(***************************************************************************)
KeywordRequests ==
    [title : Titles, description : {"", "need help now", "Water, water"},
     category : {"OTHER"}]
    \cup {[title |-> "There is a fire emergency", description |-> "need help now",
           category |-> "OTHER"]}

InitKeywords ==
    /\ pc = "idle"
    /\ op = "fallbackPrioritization"
    /\ args \in KeywordRequests
    /\ response = NoResponse
    /\ result = NoResult
    /\ logged = << >>
    /\ other = NoArgs
    /\ now = 0
    /\ posts = 0
    /\ NoSockets
    /\ NoStore

NextKeywords == CallFallbackPrioritization

SpecKeywords == InitKeywords /\ [][NextKeywords]_vars
(***************************************************************************)
(* Two classifications side by side                                        *)
(***************************************************************************)
CompareRequests ==
    [title : Phrases(MaxCompareWords), description : Descriptions, category : Categories]

OtherRequests ==
    [title : {"Report"}, description : Descriptions,
     category : {"MEDICAL", "EDUCATION", "OTHER"}]

InitCompare ==
    /\ pc = "idle"
    /\ op = "fallbackPrioritization"
    /\ args \in CompareRequests
    /\ response = NoResponse
    /\ result = NoResult
    /\ logged = << >>
    /\ other \in [request : OtherRequests, result : {NoResult}]
    /\ now = 0
    /\ posts = 0
    /\ NoSockets
    /\ NoStore

CallFallbackPrioritizationAgain ==
    /\ pc = "returned"
    /\ op = "fallbackPrioritization"
    /\ "request" \in DOMAIN other
    /\ other.result = NoResult
    /\ other' = [other EXCEPT !.result = fallbackPrioritization(other.request)]
    /\ UNCHANGED <<pc, op, args, response, result, logged, now, posts>>
    /\ UNCHANGED <<socketVars, storeVars>>

NextCompare == CallFallbackPrioritization \/ CallFallbackPrioritizationAgain

SpecCompare == InitCompare /\ [][NextCompare]_vars

(***************************************************************************)
(* AIService.fallbackResourcePrediction                                    *)
(***************************************************************************)
Floor(num, den) == num \div den

\* Math.ceil(num / den) for integers num >= 0, den > 0
Ceil(num, den) == (num + den - 1) \div den

predictions(affectedPopulation) ==
    [ FLOOD |->
        [ water_liters |-> Ceil(affectedPopulation * 5, 1),
          food_rations |-> Ceil(affectedPopulation * 3, 1),
          blankets |-> Ceil(affectedPopulation, 1),
          first_aid_kits |-> Ceil(affectedPopulation, 50),
          emergency_kits |-> Ceil(affectedPopulation, 10),
          volunteers_needed |-> Ceil(affectedPopulation, 100),
          boats |-> Max(1, Ceil(affectedPopulation, 500)),
          life_jackets |-> Ceil(affectedPopulation, 2) ],
      EARTHQUAKE |->
        [ tents |-> Ceil(affectedPopulation, 5),
          first_aid_kits |-> Ceil(affectedPopulation, 20),
          rescue_teams |-> Ceil(affectedPopulation, 500),
          heavy_equipment |-> Ceil(affectedPopulation, 1000),
          volunteers_needed |-> Ceil(affectedPopulation, 50),
          blankets |-> Ceil(affectedPopulation * 2, 1),
          food_rations |-> Ceil(affectedPopulation * 2, 1),
          water_liters |-> Ceil(affectedPopulation * 3, 1) ],
      FIRE |->
        [ temporary_shelter |-> Ceil(affectedPopulation, 10),
          clothing |-> Ceil(affectedPopulation, 1),
          food_rations |-> Ceil(affectedPopulation * 2, 1),
          counseling_teams |-> Ceil(affectedPopulation, 100),
          volunteers_needed |-> Ceil(affectedPopulation, 75),
          first_aid_kits |-> Ceil(affectedPopulation, 30),
          blankets |-> Ceil(affectedPopulation, 1) ],
      TYPHOON |->
        [ water_liters |-> Ceil(affectedPopulation * 4, 1),
          canned_goods |-> Ceil(affectedPopulation * 7, 1),
          emergency_kits |-> Ceil(affectedPopulation, 1),
          generators |-> Ceil(affectedPopulation, 200),
          volunteers_needed |-> Ceil(affectedPopulation, 80),
          first_aid_kits |-> Ceil(affectedPopulation, 40),
          \* affectedPopulation * 1.5
          blankets |-> Ceil(affectedPopulation * 3, 2) ],
      MEDICAL |->
        [ first_aid_kits |-> Ceil(affectedPopulation, 10),
          masks |-> Ceil(affectedPopulation * 10, 1),
          sanitizer_liters |-> Ceil(affectedPopulation, 5),
          volunteers_needed |-> Ceil(affectedPopulation, 50),
          ambulance_units |-> Max(1, Ceil(affectedPopulation, 1000)) ] ]

defaultPrediction(affectedPopulation) ==
    [ water_liters |-> Ceil(affectedPopulation * 3, 1),
      food_rations |-> Ceil(affectedPopulation * 2, 1),
      blankets |-> Ceil(affectedPopulation, 1),
      first_aid_kits |-> Ceil(affectedPopulation, 30),
      volunteers_needed |-> Ceil(affectedPopulation, 100),
      emergency_kits |-> Ceil(affectedPopulation, 20) ]

\* The properties an object literal inherits from Object.prototype: reading
\* one of them from the literal yields a function (or, for __proto__, the
\* prototype object), which is truthy.
ObjectPrototypeProperties ==
    { "constructor", "toString", "toLocaleString", "valueOf", "hasOwnProperty",
      "isPrototypeOf", "propertyIsEnumerable", "__proto__",
      "__defineGetter__", "__defineSetter__", "__lookupGetter__", "__lookupSetter__" }

Undefined == [undefined |-> TRUE]

\* object[key] on an object literal: own property, inherited property, undefined
GetProperty(object, key) ==
    IF key \in DOMAIN object THEN object[key]
    ELSE IF key \in ObjectPrototypeProperties THEN [inherited |-> key]
    ELSE Undefined

\* a || b, for a an object, a function or undefined
OrElse(a, b) == IF a = Undefined THEN b ELSE a

fallbackResourcePrediction(disasterType, affectedPopulation, date) ==
    LET prediction == OrElse(GetProperty(predictions(affectedPopulation), disasterType),
                             defaultPrediction(affectedPopulation))
    IN  [ status |-> "success",
          disaster_type |-> disasterType,
          affected_population |-> affectedPopulation,
          predictions |-> prediction,
          timestamp |-> date,
          note |-> "Fallback prediction based on standard emergency response guidelines" ]

(***************************************************************************)
(* Direct calls of the fallback resource prediction                        *)
(***************************************************************************)
DisasterTypes ==
    { "FLOOD", "EARTHQUAKE", "FIRE", "TYPHOON", "MEDICAL",
      "UNKNOWN_TYPE", "flood", "Medical", "", "constructor" }

Populations == 0..MaxPopulation

InitPredict ==
    /\ pc = "idle"
    /\ op = "fallbackResourcePrediction"
    /\ args \in [disasterType : DisasterTypes, affectedPopulation : Populations]
    /\ response = NoResponse
    /\ result = NoResult
    /\ logged = << >>
    /\ other = NoArgs
    /\ now = 0
    /\ posts = 0
    /\ NoSockets
    /\ NoStore

CallFallbackResourcePrediction ==
    /\ pc = "idle"
    /\ op = "fallbackResourcePrediction"
    /\ result' = fallbackResourcePrediction(args.disasterType, args.affectedPopulation, now)
    /\ pc' = "returned"
    /\ UNCHANGED <<op, args, response, logged, other, now, posts>>
    /\ UNCHANGED <<socketVars, storeVars>>

NextPredict == CallFallbackResourcePrediction

SpecPredict == InitPredict /\ [][NextPredict]_vars

(***************************************************************************)
(* AIService.fallbackChatbotResponse                                       *)
(***************************************************************************)
\* Object.entries(responses): the entries in insertion order, each key split
\* at '|'; confidence in ten-thousandths
responses ==
    << [ patterns |-> <<"hello", "hi", "hey", "kamusta">>,
         response |-> "Hello! How can I help you with BarangayLink today?",
         confidence |-> 9000,
         actions |-> <<"Submit Request", "Browse Events", "Make Donation">> ],
       [ patterns |-> <<"request", "help", "assistance", "tulong">>,
         response |-> "You can submit a help request in the Services section. What type of assistance do you need?",
         confidence |-> 8000,
         actions |-> <<"Medical Help", "Food Support", "Emergency">> ],
       [ patterns |-> <<"medical", "doctor", "hospital", "sakit", "gamot">>,
         response |-> "For medical emergencies, please call 911 immediately. For non-emergencies, you can submit a medical request through our system.",
         confidence |-> 8500,
         actions |-> <<"Submit Medical Request", "Find Health Center", "Emergency Contacts">> ],
       [ patterns |-> <<"food", "hunger", "meal", "gutom", "pagkain">>,
         response |-> "We have a food assistance program. You can submit a food request or visit our community pantry during operating hours.",
         confidence |-> 8000,
         actions |-> <<"Submit Food Request", "View Pantry Locations", "Donate Food">> ],
       [ patterns |-> <<"event", "activity", "program", "meeting", "pulong">>,
         response |-> "Check the Events section for upcoming community activities. You can also register as a volunteer for events!",
         confidence |-> 8000,
         actions |-> <<"Browse Events", "Volunteer Registration", "Create Event">> ],
       [ patterns |-> <<"donate", "donation", "contribute", "bigay", "abuloy">>,
         response |-> "Thank you for wanting to help! Visit the Donations section to contribute. All donations are tracked transparently.",
         confidence |-> 9000,
         actions |-> <<"Make Donation", "View Campaigns", "Donation History">> ],
       [ patterns |-> <<"volunteer", "volunteering", "help others", "tumulong", "boluntaryo">>,
         response |-> "That's wonderful! Register as a volunteer in your profile settings, then browse available opportunities.",
         confidence |-> 8500,
         actions |-> <<"Volunteer Registration", "View Opportunities", "My Assignments">> ],
       [ patterns |-> <<"clearance", "certificate", "document", "permit", "cedula">>,
         response |-> "For barangay clearances, please visit the office with: 1) Valid ID, 2) Proof of residency, 3) Purpose of clearance.",
         confidence |-> 8000,
         actions |-> <<"Requirements List", "Office Hours", "Online Request">> ],
       [ patterns |-> <<"complaint", "problem", "issue", "reklamo", "problema">>,
         response |-> "You can submit a formal complaint through the Services section. Please provide detailed information and evidence if available.",
         confidence |-> 8000,
         actions |-> <<"Submit Complaint", "View Process", "Status Tracking">> ],
       [ patterns |-> <<"thank", "thanks", "salamat", "maraming salamat">>,
         response |-> "You're welcome! Is there anything else I can help you with?",
         confidence |-> 9500,
         actions |-> << >> ],
       [ patterns |-> <<"contact", "phone", "number", "tawag", "telepono">>,
         response |-> "You can contact the barangay office at (02) 123-4567 during office hours (Monday-Friday, 8AM-5PM).",
         confidence |-> 7000,
         actions |-> <<"Emergency Contacts", "Office Location", "Email Support">> ] >>

\* patterns.some(p => lowerQuery.includes(p))
EntryMatches(entry, lowerQuery) ==
    \E i \in DOMAIN entry.patterns : Includes(lowerQuery, entry.patterns[i])

LastMatching(matching) == CHOOSE i \in matching : \A j \in matching : i >= j

\* the entry at which the for-of loop over Object.entries(responses) returns
FirstMatching(matching) == CHOOSE i \in matching : \A j \in matching : i <= j

DefaultResponseAsEntry(date) ==
    [ response |-> "I'm not sure about that. Please contact the barangay office directly for specific inquiries or check our FAQ section.",
      confidence |-> 8000,
      sources |-> <<"BarangayLink FAQ Database">>,
      suggested_actions |-> <<"Contact Support", "Browse FAQ", "Submit General Inquiry">>,
      timestamp |-> date ]

\* the default response, returned after the loop
DefaultResponse(date) ==
    [ response |-> "I'm not sure about that. Please contact the barangay office directly for specific inquiries or check our FAQ section.",
      confidence |-> 3000,
      sources |-> << >>,
      suggested_actions |-> <<"Contact Support", "Browse FAQ", "Submit General Inquiry">>,
      timestamp |-> date ]

fallbackChatbotResponse(query, date) ==
    LET lowerQuery == ToLowerCase(query)
        matching == {i \in DOMAIN responses : EntryMatches(responses[i], lowerQuery)}
    IN  IF matching # {}
        THEN LET config == responses[FirstMatching(matching)]
             IN  [ response |-> config.response,
                   confidence |-> config.confidence,
                   sources |-> <<"BarangayLink FAQ Database">>,
                   suggested_actions |-> config.actions,
                   timestamp |-> date ]
        ELSE DefaultResponse(date)

(***************************************************************************)
(* Direct calls of the conversational fallback                             *)
(***************************************************************************)
QueryWords ==
    {"Kamusta", "food", "thanks", "volunteer", "This", "number", "permit", "zzz"}

RECURSIVE QueryPhrases(_)
QueryPhrases(n) ==
    IF n = 0 THEN {""}
    ELSE LET shorter == QueryPhrases(n - 1)
         IN  shorter \cup QueryWords
                     \cup {p \o " " \o w : p \in shorter \ {""}, w \in QueryWords}

InitMatch ==
    /\ pc = "idle"
    /\ op = "fallbackChatbotResponse"
    /\ args \in [query : QueryPhrases(MaxQueryWords)]
    /\ response = NoResponse
    /\ result = NoResult
    /\ logged = << >>
    /\ other = NoArgs
    /\ now \in {0, 60000}
    /\ posts = 0
    /\ NoSockets
    /\ NoStore

CallFallbackChatbotResponse ==
    /\ pc = "idle"
    /\ op = "fallbackChatbotResponse"
    /\ result' = fallbackChatbotResponse(args.query, now)
    /\ pc' = "returned"
    /\ UNCHANGED <<op, args, response, logged, other, now, posts>>
    /\ UNCHANGED <<socketVars, storeVars>>

NextMatch == CallFallbackChatbotResponse

SpecMatch == InitMatch /\ [][NextMatch]_vars

(***************************************************************************)
(* The gateway operations: prioritizeRequest, getChatbotResponse,          *)
(* predictResourceNeeds                                                    *)
(***************************************************************************)
\* this.timeout, milliseconds
timeout == 5000

\* response.data as a JavaScript value: the object of a JSON object body,
\* null for the body "null", a string for a body that is not JSON
JsObject(fields) == [type |-> "object", fields |-> fields]
JsNull == [type |-> "null"]
JsString(chars) == [type |-> "string", chars |-> chars]

\* reading a property of null throws a TypeError
ReadThrows(data) == data.type = "null"

\* The object literal of the return statement, { local: data.remote, ... }.
\* A property whose value is undefined is left out of the record: it reads as
\* undefined either way.
PickFields(data, names) ==
    LET present == IF data.type = "object" THEN DOMAIN data.fields ELSE {}
    IN  [local \in {n \in DOMAIN names : names[n] \in present} |->
            data.fields[names[local]]]

Returned(value, records) == [raised |-> FALSE, value |-> value, logged |-> records]
Raised(error, records) == [raised |-> TRUE, error |-> error, logged |-> records]

PrioritizeFields ==
    [ priority |-> "priority", score |-> "score", reason |-> "reason",
      suggestedCategory |-> "suggested_category" ]

ChatFields ==
    [ response |-> "response", confidence |-> "confidence", sources |-> "sources",
      suggested_actions |-> "suggested_actions", timestamp |-> "timestamp" ]

prioritizeRequestDefaultOnError(requestData, r) ==
    IF r.settled = "rejected"
    THEN Returned([priority |-> "MEDIUM", score |-> 5000, reason |-> "",
                   suggestedCategory |-> requestData.category], <<"warn">>)
    ELSE IF ReadThrows(r.data)
    THEN Returned(fallbackPrioritization(requestData), <<"info", "warn">>)
    ELSE Returned(PickFields(r.data, PrioritizeFields), <<"info">>)

prioritizeRequestUnguardedRead(requestData, r) ==
    IF r.settled = "rejected"
    THEN Returned(fallbackPrioritization(requestData), <<"warn">>)
    ELSE IF ReadThrows(r.data)
    THEN Raised("TypeError", <<"info">>)
    ELSE Returned(PickFields(r.data, PrioritizeFields), <<"info">>)

\* prioritizeRequest from the point where the axios.post promise settled as r
prioritizeRequest(requestData, r) ==
    IF r.settled = "rejected"
    THEN Returned(fallbackPrioritization(requestData), <<"warn">>)
    ELSE IF ReadThrows(r.data)
    THEN Returned(fallbackPrioritization(requestData), <<"info", "warn">>)
    ELSE Returned(PickFields(r.data, PrioritizeFields), <<"info">>)

\* getChatbotResponse from the point where the promise settled as r
getChatbotResponse(query, context, r, date) ==
    IF r.settled = "rejected"
    THEN Returned(fallbackChatbotResponse(query, date), <<"warn">>)
    ELSE IF ReadThrows(r.data)
    THEN Returned(fallbackChatbotResponse(query, date), <<"info", "warn">>)
    ELSE Returned(PickFields(r.data, ChatFields), <<"info">>)

\* getChatbotResponse when building the request body throws (context is
\* null, so context.userId is a TypeError inside the try block): no request
\* is sent
getChatbotResponseNoRequest(query, context, date) ==
    Returned(fallbackChatbotResponse(query, date), <<"warn">>)

\* predictResourceNeeds from the point where the promise settled as r
predictResourceNeeds(disasterType, affectedPopulation, location, r, date) ==
    IF r.settled = "rejected"
    THEN Returned(fallbackResourcePrediction(disasterType, affectedPopulation, date),
                  <<"warn">>)
    ELSE Returned(r.data, <<"info">>)

(***************************************************************************)
(* What the external service can do with a request                         *)
(***************************************************************************)
Latencies == {120, 4999}

Rejections ==
    [settled : {"rejected"}, error : {"ECONNREFUSED", "ERR_BAD_RESPONSE"},
     latency : Latencies]
    \cup {[settled |-> "rejected", error |-> "ECONNABORTED", latency |-> timeout]}

Resolved(bodies) == [settled : {"resolved"}, data : bodies, latency : Latencies]

PrioritizeBodies ==
    { JsObject([priority |-> "HIGH", score |-> 8800, reason |-> "model v2",
                suggested_category |-> "MEDICAL"]),
      JsObject([priority |-> "LOW", score |-> 1200, reason |-> "model v2",
                suggested_category |-> "OTHER"]),
      JsObject([error |-> "model not loaded"]),
      JsObject([priority |-> "HIGH"]),
      JsString("<html>Bad Gateway</html>"),
      JsNull }

ChatBodies ==
    { JsObject([response |-> "Office hours are 8AM-5PM.", confidence |-> 9100,
                sources |-> <<"FAQ">>, suggested_actions |-> <<"Office Hours">>,
                timestamp |-> 100]),
      JsObject([detail |-> "rate limited"]),
      JsString(""),
      JsNull }

PredictBodies ==
    { JsObject([water_liters |-> 450, boats |-> 2]),
      JsObject([status |-> "success", predictions |-> [water_liters |-> 450]]),
      JsString(""),
      JsNull }

Responses(method) ==
    Rejections \cup
        Resolved(CASE method = "prioritizeRequest" -> PrioritizeBodies
                   [] method = "getChatbotResponse" -> ChatBodies
                   [] method = "predictResourceNeeds" -> PredictBodies)

GatewayRequests ==
    [ title : {"Fire", "seafood", "Library"},
      description : {"need help now", "sick with fever"},
      category : {"MEDICAL", "OTHER"} ]

Queries == {"Kamusta", "I need food and medicine", "Where is the office?"}

\* the context argument: left out (the default {}), an object, or null
Contexts ==
    { [type |-> "undefined"],
      JsObject([userId |-> "u1", userRole |-> "RESIDENT", language |-> "tl"]),
      JsNull }

ChatArgs == [query : Queries, context : Contexts]

PredictArgs ==
    [ disasterType : {"FLOOD", "UNKNOWN_TYPE"}, affectedPopulation : {0, 100},
      location : {"Purok 1"} ]

(***************************************************************************)
(* Calls of the gateway operations                                         *)
(***************************************************************************)
Init ==
    /\ pc = "idle"
    /\ op = "none"
    /\ args = NoArgs
    /\ response = NoResponse
    /\ result = NoResult
    /\ logged = << >>
    /\ other = NoArgs
    /\ now = 0
    /\ posts = 0
    /\ NoSockets
    /\ NoStore

CompleteOrRetry(outcome) ==
    IF ~outcome.raised /\ outcome.logged = <<"warn">> /\ posts = 1
    THEN /\ pc' = "awaiting"
         /\ posts' = posts + 1
         /\ logged' = logged \o outcome.logged
         /\ UNCHANGED result
    ELSE /\ pc' = IF outcome.raised THEN "raised" ELSE "returned"
         /\ result' = IF outcome.raised THEN [error |-> outcome.error]
                       ELSE outcome.value
         /\ logged' = logged \o outcome.logged
         /\ UNCHANGED posts
\* the method ends: it returns the value or raises, having made no other call
Complete(outcome) ==
    /\ pc' = IF outcome.raised THEN "raised" ELSE "returned"
    /\ result' = IF outcome.raised THEN [error |-> outcome.error] ELSE outcome.value
    /\ logged' = logged \o outcome.logged
    /\ UNCHANGED posts

CallPrioritizeRequest ==
    /\ pc = "idle"
    /\ \E requestData \in GatewayRequests : args' = requestData
    /\ op' = "prioritizeRequest"
    /\ pc' = "awaiting"
    /\ posts' = posts + 1
    /\ UNCHANGED <<response, result, logged, other, now>>
    /\ UNCHANGED <<socketVars, storeVars>>

CallPredictResourceNeeds ==
    /\ pc = "idle"
    /\ \E a \in PredictArgs : args' = a
    /\ op' = "predictResourceNeeds"
    /\ pc' = "awaiting"
    /\ posts' = posts + 1
    /\ UNCHANGED <<response, result, logged, other, now>>
    /\ UNCHANGED <<socketVars, storeVars>>

CallGetChatbotResponse ==
    /\ pc = "idle"
    /\ \E a \in ChatArgs :
          /\ args' = a
          /\ IF ReadThrows(a.context)
             THEN Complete(getChatbotResponseNoRequest(a.query, a.context, now))
             ELSE pc' = "awaiting" /\ posts' = posts + 1 /\ UNCHANGED <<result, logged>>
    /\ op' = "getChatbotResponse"
    /\ UNCHANGED <<response, other, now>>
    /\ UNCHANGED <<socketVars, storeVars>>

\* the axios.post promise settles: resolved with a body, rejected by a
\* network or HTTP error, or rejected by the timeout
AxiosSettles ==
    /\ pc = "awaiting"
    /\ \E r \in Responses(op) :
          /\ response' = r
          /\ now' = now + r.latency
          /\ Complete(CASE op = "prioritizeRequest" -> prioritizeRequest(args, r)
                        [] op = "getChatbotResponse" ->
                              getChatbotResponse(args.query, args.context, r,
                                                 now + r.latency)
                        [] op = "predictResourceNeeds" ->
                              predictResourceNeeds(args.disasterType,
                                                   args.affectedPopulation,
                                                   args.location, r, now + r.latency))
    /\ UNCHANGED <<op, args, other>>
    /\ UNCHANGED <<socketVars, storeVars>>

Next ==
    \/ CallPrioritizeRequest
    \/ CallPredictResourceNeeds
    \/ CallGetChatbotResponse
    \/ AxiosSettles

Spec == Init /\ [][Next]_vars

(***************************************************************************)
(* The socket module (utils/socket.js): handshake, rooms, events           *)
(*                                                                         *)
(* The rooms are kept by the socket.io adapter: rooms maps a room key to   *)
(* the set of socket ids in it, sids maps a socket id to its room keys.    *)
(* A room's set is modelled as a count per socket id, so that "is in the   *)
(* room once" is a statement about the state; Set.prototype.add makes the  *)
(* count one.  A socket is put in the room named by its own id before the  *)
(* connection listener runs, and is taken out of all its rooms before the  *)
(* disconnect listener runs.                                               *)
(***************************************************************************)
NoToken == [kind |-> "none"]
Forged == [kind |-> "forged"]
Signed(payload) == [kind |-> "signed", payload |-> payload]

\* { userId, email, role } as authController signs it; the last two tokens
\* are of a deleted user and of a user whose role changed after signing
Payloads ==
    {[userId |-> u.id, email |-> u.email, role |-> u.role] : u \in Users}
        \cup {[userId |-> "u9", email |-> "gone@brgy.ph", role |-> "MEMBER"],
              [userId |-> "u3", email |-> "cora@brgy.ph", role |-> "MODERATOR"]}

Tokens == {NoToken, Forged} \cup {Signed(p) : p \in Payloads}

authenticateUnverified(token) ==
    IF token.kind = "none"
    THEN [ok |-> FALSE, error |-> "Authentication error: No token provided"]
    ELSE IF token.kind = "forged"
    THEN [ok |-> FALSE, error |-> "Authentication error: Invalid token"]
    ELSE LET decoded == token.payload
             found == {u \in Users : u.id = decoded.userId}
         IN  IF found = {}
             THEN [ok |-> FALSE, error |-> "Authentication error: Invalid user"]
             ELSE [ok |-> TRUE,
                   user |-> [id |-> decoded.userId, email |-> decoded.email,
                             role |-> decoded.role]]
\* io.use(async (socket, next) => ...)
authenticate(token) ==
    IF token.kind = "none"
    THEN [ok |-> FALSE, error |-> "Authentication error: No token provided"]
    ELSE IF token.kind = "forged"
    THEN [ok |-> FALSE, error |-> "Authentication error: Invalid token"]
    ELSE LET decoded == token.payload
             found == {u \in Users : u.id = decoded.userId}
         IN  IF found = {} \/ \E u \in found : ~u.isVerified \/ u.isActive = FALSE
             THEN [ok |-> FALSE, error |-> "Authentication error: Invalid user"]
             ELSE [ok |-> TRUE,
                   user |-> [id |-> decoded.userId, email |-> decoded.email,
                             role |-> decoded.role]]

Members(room) == {s \in SocketIds : rooms[room][s] > 0}

SetPush(members, s) == [members EXCEPT ![s] = @ + 1]
\* Set.prototype.add
SetAdd(members, s) == [members EXCEPT ![s] = 1]

JoinedRoomsOnly(s, joined) ==
    [room \in RoomKeys |->
        IF room \in joined THEN SetAdd(rooms[room], s)
        ELSE [rooms[room] EXCEPT ![s] = 0]]
JoinedRoomsOverwrite(s, joined) ==
    [room \in RoomKeys |->
        IF room \in joined THEN [t \in SocketIds |-> IF t = s THEN 1 ELSE 0]
        ELSE rooms[room]]
\* socket.join(room) for every room of joined
JoinedRooms(s, joined) ==
    [room \in RoomKeys |->
        IF room \in joined THEN SetAdd(rooms[room], s) ELSE rooms[room]]

ConnectionRoomsAdminOnly(s, user) ==
    {s, UserRoom(user.id), ToLowerCase(user.role)}
        \cup (IF user.role = "ADMIN" THEN {"admins"} ELSE {})
\* the rooms a socket is in when the connection listener has run
ConnectionRooms(s, user) ==
    {s, UserRoom(user.id), ToLowerCase(user.role)}
        \cup (IF user.role = "ADMIN" \/ user.role = "MODERATOR"
              THEN {"admins"} ELSE {})

LeftAllButOwn(s) ==
    [room \in RoomKeys |->
        IF room \in sids[s] /\ room # s
        THEN [rooms[room] EXCEPT ![s] = 0] ELSE rooms[room]]
\* the adapter's removal of a closing socket from all its rooms
LeftAll(s) ==
    [room \in RoomKeys |->
        IF room \in sids[s] THEN [rooms[room] EXCEPT ![s] = 0] ELSE rooms[room]]

InitSocketServer ==
    /\ io = "undefined"
    /\ io' = "server"
    /\ event' = [name |-> "init"]
    /\ UNCHANGED <<sockets, rooms, sids>>

\* a client connects with a token: the middleware, then the listener
Connect(s, token) ==
    /\ io = "server"
    /\ sockets[s].state = "unused"
    /\ LET auth == authenticate(token)
       IN  IF auth.ok
           THEN /\ sockets' = [sockets EXCEPT
                       ![s] = [state |-> "connected", user |-> auth.user]]
                /\ rooms' = JoinedRooms(s, ConnectionRooms(s, auth.user))
                /\ sids' = [sids EXCEPT ![s] = ConnectionRooms(s, auth.user)]
                /\ event' = [name |-> "connection", socket |-> s]
           ELSE /\ sockets' = [sockets EXCEPT ![s] = [state |-> "refused"]]
                /\ event' = [name |-> "connect_error", socket |-> s,
                             error |-> auth.error]
                /\ UNCHANGED <<rooms, sids>>
    /\ UNCHANGED io

\* socket.on('join-request', (requestId) => ...)
JoinRequest(s, requestId) ==
    /\ sockets[s].state = "connected"
    /\ rooms' = JoinedRooms(s, {RequestRoom(requestId)})
    /\ sids' = [sids EXCEPT ![s] = @ \cup {RequestRoom(requestId)}]
    /\ event' = [name |-> "join-request", socket |-> s,
                 room |-> RequestRoom(requestId),
                 rejoin |-> RequestRoom(requestId) \in sids[s]]
    /\ UNCHANGED <<io, sockets>>

\* socket.on('join-chat', (chatId) => ...)
JoinChat(s, chatId) ==
    /\ sockets[s].state = "connected"
    /\ rooms' = JoinedRooms(s, {ChatRoom(chatId)})
    /\ sids' = [sids EXCEPT ![s] = @ \cup {ChatRoom(chatId)}]
    /\ event' = [name |-> "join-chat", socket |-> s, room |-> ChatRoom(chatId),
                 rejoin |-> ChatRoom(chatId) \in sids[s]]
    /\ UNCHANGED <<io, sockets>>

\* the close of a socket's connection; a socket that is not connected (never
\* was, was refused, closed already) is left as it is and no listener runs
Disconnect(s) ==
    /\ event' = [name |-> "disconnect", socket |-> s,
                 connected |-> sockets[s].state = "connected"]
    /\ IF sockets[s].state = "connected"
       THEN /\ rooms' = LeftAll(s)
            /\ sids' = [sids EXCEPT ![s] = {}]
            /\ sockets' = [sockets EXCEPT ![s] = [state |-> "disconnected"]]
       ELSE UNCHANGED <<rooms, sids, sockets>>
    /\ UNCHANGED io

\* shutdown: io.close() closes every connected socket; io stays the server
Shutdown ==
    /\ io = "server"
    /\ io' = "closed"
    /\ sockets' = [s \in SocketIds |->
                      IF sockets[s].state = "connected"
                      THEN [state |-> "disconnected"] ELSE sockets[s]]
    /\ rooms' = [room \in RoomKeys |-> [s \in SocketIds |-> 0]]
    /\ sids' = [s \in SocketIds |-> {}]
    /\ event' = [name |-> "close"]

GatewayIdle ==
    /\ pc = "idle"
    /\ op = "none"
    /\ args = NoArgs
    /\ response = NoResponse
    /\ result = NoResult
    /\ logged = << >>
    /\ other = NoArgs
    /\ now = 0
    /\ posts = 0

InitRooms == GatewayIdle /\ NoSockets /\ NoStore

NextRooms ==
    \/ InitSocketServer /\ UNCHANGED <<gatewayVars, storeVars>>
    \/ \E s \in SocketIds, token \in Tokens :
          Connect(s, token) /\ UNCHANGED <<gatewayVars, storeVars>>
    \/ \E s \in SocketIds, requestId \in RequestIds :
          JoinRequest(s, requestId) /\ UNCHANGED <<gatewayVars, storeVars>>
    \/ \E s \in SocketIds, chatId \in ChatIds :
          JoinChat(s, chatId) /\ UNCHANGED <<gatewayVars, storeVars>>
    \/ \E s \in SocketIds : Disconnect(s) /\ UNCHANGED <<gatewayVars, storeVars>>
    \/ Shutdown /\ UNCHANGED <<gatewayVars, storeVars>>

SpecRooms == InitRooms /\ [][NextRooms]_vars

(***************************************************************************)
(* The socket module: clients that send room keys as ids                   *)
(***************************************************************************)
\* the tokens of an administrator and of a member, and no token
JoinTokens ==
    {NoToken} \cup {Signed(p) : p \in {q \in Payloads : q.userId \in {"u1", "u3"}
                                                       /\ q.role # "MODERATOR"}}

NextJoin ==
    \/ InitSocketServer /\ UNCHANGED <<gatewayVars, storeVars>>
    \/ \E s \in SocketIds, token \in JoinTokens :
          Connect(s, token) /\ UNCHANGED <<gatewayVars, storeVars>>
    \/ \E s \in SocketIds, requestId \in ClientIds :
          JoinRequest(s, requestId) /\ UNCHANGED <<gatewayVars, storeVars>>
    \/ \E s \in SocketIds, chatId \in ClientChatIds :
          JoinChat(s, chatId) /\ UNCHANGED <<gatewayVars, storeVars>>
    \/ \E s \in SocketIds : Disconnect(s) /\ UNCHANGED <<gatewayVars, storeVars>>

SpecJoin == InitRooms /\ [][NextJoin]_vars
(***************************************************************************)
(* The socket module: emitting to a room                                   *)
(*                                                                         *)
(* io.to(room).emit(...) writes the packet to every socket that is in the  *)
(* room when it is called; socket.to(room) leaves out the sockets of the   *)
(* room named by the sender's id.  A socket whose connection is no longer  *)
(* open is skipped and the others are still written to; which sockets are  *)
(* in that state is an input of the call (unwritable).  The packet is kept *)
(* nowhere: a socket that joins later is not written to.                   *)
(***************************************************************************)
ExceptSids(exceptRooms) == UNION {Members(room) : room \in exceptRooms}

BroadcastToAll(room, exceptRooms, eventName, unwritable) ==
    LET to == {s \in SocketIds : sockets[s].state = "connected"}
    IN  [room |-> room, emit |-> eventName, unwritable |-> unwritable,
         attempted |-> to, delivered |-> to \ unwritable]
\* io.to(room).emit(eventName, ...) and socket.to(room).emit(eventName, ...)
Broadcast(room, exceptRooms, eventName, unwritable) ==
    LET to == Members(room) \ ExceptSids(exceptRooms)
    IN  [room |-> room, emit |-> eventName, unwritable |-> unwritable,
         attempted |-> to, delivered |-> to \ unwritable]

EmitUncaught(room, eventName, unwritable) ==
    IF io = "undefined"
    THEN [returned |-> FALSE, logged |-> "none",
          sent |-> [room |-> room, emit |-> eventName, unwritable |-> {},
                    attempted |-> {}, delivered |-> {}]]
    ELSE [returned |-> TRUE, logged |-> "debug",
          sent |-> Broadcast(room, {}, eventName, unwritable)]
\* try { const io = getIO(); io.to(room).emit(...); logger.debug(...) }
\* catch (error) { logger.error(...) }
TryEmit(room, eventName, unwritable) ==
    IF io = "undefined"
    THEN [returned |-> TRUE, logged |-> "error",
          sent |-> [room |-> room, emit |-> eventName, unwritable |-> {},
                    attempted |-> {}, delivered |-> {}]]
    ELSE [returned |-> TRUE, logged |-> "debug",
          sent |-> Broadcast(room, {}, eventName, unwritable)]

emitNotification(userId, unwritable) ==
    TryEmit(UserRoom(userId), "notification", unwritable)

\* the event name is the caller's; new-request stands for any of them
broadcastToAdmins(eventName, unwritable) ==
    TryEmit("admins", eventName, unwritable)

updateRequestStatus(requestId, unwritable) ==
    TryEmit(RequestRoom(requestId), "request-status-updated", unwritable)

typingToRoom(s, data, unwritable) ==
    Broadcast(ChatRoom(data.chatId), {}, "user-typing", unwritable)
\* socket.to(`chat-${chatId}`).emit('user-typing', ...)
typing(s, data, unwritable) ==
    Broadcast(ChatRoom(data.chatId), {s}, "user-typing", unwritable)

\* a call of one of the exported helpers
Helper(name, outcome) ==
    /\ event' = [name |-> name, returned |-> outcome.returned,
                 logged |-> outcome.logged, sent |-> outcome.sent]
    /\ UNCHANGED <<io, sockets, rooms, sids>>
    /\ UNCHANGED <<gatewayVars, storeVars>>

CallEmitNotification ==
    \E userId \in UserIds : \E unwritable \in SUBSET Members(UserRoom(userId)) :
        Helper("emitNotification", emitNotification(userId, unwritable))

CallBroadcastToAdmins ==
    \E unwritable \in SUBSET Members("admins") :
        Helper("broadcastToAdmins", broadcastToAdmins("new-request", unwritable))

CallUpdateRequestStatus ==
    \E requestId \in RequestIds :
        \E unwritable \in SUBSET Members(RequestRoom(requestId)) :
            Helper("updateRequestStatus", updateRequestStatus(requestId, unwritable))

TypingData ==
    {[chatId |-> chatId, isTyping |-> isTyping] :
        chatId \in ChatIds, isTyping \in BOOLEAN}

\* socket.on('typing', (data) => ...)
Typing(s, data, unwritable) ==
    /\ sockets[s].state = "connected"
    /\ event' = [name |-> "typing", socket |-> s,
                 payload |-> [userId |-> sockets[s].user.id,
                              isTyping |-> data.isTyping],
                 sent |-> typing(s, data, unwritable)]
    /\ UNCHANGED <<io, sockets, rooms, sids>>

NextDispatch ==
    \/ InitSocketServer /\ UNCHANGED <<gatewayVars, storeVars>>
    \/ \E s \in SocketIds, token \in Tokens :
          Connect(s, token) /\ UNCHANGED <<gatewayVars, storeVars>>
    \/ \E s \in SocketIds, requestId \in RequestIds :
          JoinRequest(s, requestId) /\ UNCHANGED <<gatewayVars, storeVars>>
    \/ \E s \in SocketIds : Disconnect(s) /\ UNCHANGED <<gatewayVars, storeVars>>
    \/ Shutdown /\ UNCHANGED <<gatewayVars, storeVars>>
    \/ CallEmitNotification
    \/ CallBroadcastToAdmins
    \/ CallUpdateRequestStatus

SpecDispatch == InitRooms /\ [][NextDispatch]_vars

NextTyping ==
    \/ InitSocketServer /\ UNCHANGED <<gatewayVars, storeVars>>
    \/ \E s \in SocketIds, token \in Tokens :
          Connect(s, token) /\ UNCHANGED <<gatewayVars, storeVars>>
    \/ \E s \in SocketIds, chatId \in ChatIds :
          JoinChat(s, chatId) /\ UNCHANGED <<gatewayVars, storeVars>>
    \/ \E s \in SocketIds : Disconnect(s) /\ UNCHANGED <<gatewayVars, storeVars>>
    \/ \E s \in SocketIds, data \in TypingData :
          \E unwritable \in SUBSET (Members(ChatRoom(data.chatId)) \ {s}) :
              Typing(s, data, unwritable) /\ UNCHANGED <<gatewayVars, storeVars>>

SpecTyping == InitRooms /\ [][NextTyping]_vars

(***************************************************************************)
(* The socket module: private messages                                     *)
(*                                                                         *)
(* The listener awaits prisma.message.create; other events are handled     *)
(* while it waits.  When the promise resolves the listener emits to the    *)
(* receiver's room; when it rejects, or when the payload cannot be         *)
(* destructured, the catch emits error to the sending socket, which is     *)
(* dropped if that socket is closed by then.                               *)
(***************************************************************************)
\* a message to a user with sockets, one with a type to a user without a row,
\* and an event sent without a payload
PrivateMessageData ==
    {[to |-> "u1", message |-> "kumusta"],
     [to |-> "u9", message |-> "kumusta", type |-> "image"],
     Undefined}

\* const { to, message, type = 'text' } = data, and the row to create
MessageRow(s, data) ==
    [content |-> data.message,
     senderId |-> sockets[s].user.id,
     receiverId |-> data.to,
     messageType |-> IF "type" \in DOMAIN data THEN data.type ELSE "text"]

\* socket.emit(eventName, ...): to the sending socket alone, if still open
SocketEmit(s, eventName) == Broadcast(s, {}, eventName, {})

privateMessageEmitFirst(task, outcome, unwritable) ==
    [stored |-> outcome = "resolved",
     sent |-> Broadcast(UserRoom(task.row.receiverId), {}, "private-message",
                        unwritable)]
\* what the listener does when prisma.message.create has settled
privateMessageSettled(task, outcome, unwritable) ==
    IF outcome = "resolved"
    THEN [stored |-> TRUE,
          sent |-> Broadcast(UserRoom(task.row.receiverId), {}, "private-message",
                             unwritable)]
    ELSE [stored |-> FALSE, sent |-> SocketEmit(task.socket, "error")]

\* socket.on('private-message', async (data) => ...) up to the await
PrivateMessage(s, data) ==
    /\ sockets[s].state = "connected"
    /\ IF data = Undefined
       THEN /\ event' = [name |-> "private-message", socket |-> s,
                         stored |-> FALSE, sent |-> SocketEmit(s, "error")]
            /\ UNCHANGED tasks
       ELSE /\ Len(db.messages) + Cardinality(tasks) < MaxMessages
            /\ tasks' = tasks \cup {[socket |-> s, row |-> MessageRow(s, data)]}
            /\ event' = [name |-> "private-message", socket |-> s]
    /\ UNCHANGED <<io, sockets, rooms, sids, db>>

\* prisma.message.create settles and the listener goes on
MessageCreateSettles(task, outcome, unwritable) ==
    /\ task \in tasks
    /\ tasks' = tasks \ {task}
    /\ LET done == privateMessageSettled(task, outcome, unwritable)
       IN  /\ event' = [name |-> "private-message", socket |-> task.socket,
                         stored |-> done.stored,
                         payload |-> [from |-> task.row.senderId,
                                      message |-> task.row.content,
                                      type |-> task.row.messageType],
                         sent |-> done.sent]
           /\ db' = IF outcome = "resolved"
                    THEN [db EXCEPT !.messages = Append(@, task.row)]
                    ELSE db
    /\ UNCHANGED <<io, sockets, rooms, sids>>

NextMessage ==
    \/ InitSocketServer /\ UNCHANGED <<gatewayVars, storeVars>>
    \/ \E s \in SocketIds, token \in Tokens :
          Connect(s, token) /\ UNCHANGED <<gatewayVars, storeVars>>
    \/ \E s \in SocketIds : Disconnect(s) /\ UNCHANGED <<gatewayVars, storeVars>>
    \/ \E s \in SocketIds, data \in PrivateMessageData :
          PrivateMessage(s, data) /\ UNCHANGED gatewayVars
    \/ \E task \in tasks, outcome \in {"resolved", "rejected"} :
          \E unwritable \in SUBSET Members(UserRoom(task.row.receiverId)) :
              MessageCreateSettles(task, outcome, unwritable) /\ UNCHANGED gatewayVars

SpecMessage == InitRooms /\ [][NextMessage]_vars

(***************************************************************************)
(* RequestController.createRequest                                         *)
(*                                                                         *)
(* The handler awaits the classification, the creation of the request row  *)
(* and of its first update, one sendNotification per moderator, and the    *)
(* activity log, and then emits new-request to admins if req.io is set.    *)
(* Nothing in src/ sets req.io, so both cases are inputs.  The module      *)
(* utils/notificationService is not among the sources: sendNotification    *)
(* is taken to write one notification row and to call emitNotification.    *)
(* The rows are written without a transaction: an exception after a write  *)
(* leaves the rows written so far.                                         *)
(***************************************************************************)
CreateBodies ==
    { [title |-> "Fire", description |-> "need help now", category |-> "MEDICAL"],
      [description |-> "need help now", category |-> "MEDICAL"] }

\* how the classifier's request can settle while createRequest awaits it
AiOutcomes == {r \in Responses("prioritizeRequest") : r.latency = 120}

\* prisma.user.findMany({ where: { role: { in: [...] }, isVerified: true } })
ModeratorIds ==
    {u.id : u \in {v \in Users : v.role \in {"MODERATOR", "ADMIN"} /\ v.isVerified}}

Moderators ==
    CHOOSE seq \in [1..Cardinality(ModeratorIds) -> ModeratorIds] :
        \A i, j \in DOMAIN seq : i < j => seq[i] # seq[j]

RequestId(n) == "r" \o ToString(n)

\* the validation of req.body
BodyIsValid(body) == {"title", "description", "category"} \subseteq DOMAIN body

\* aiResult.score.toFixed(2) throws when the score is undefined
ScoreThrows(aiResult) == ~("score" \in DOMAIN aiResult)

\* res.status(...).json(...), or next(error) answered by the error handler
Respond(status, requestId, cause, reqIo) ==
    [name |-> "createRequest", status |-> status, request |-> requestId,
     cause |-> cause, io |-> reqIo]

\* createRequest up to the query for the moderators.  created: whether
\* prisma.request.create accepts a row whose priority is undefined, which
\* depends on the schema.
CreateRequest(body, r, reqIo, created) ==
    /\ reqIo = "server" => io # "undefined"
    /\ IF ~BodyIsValid(body)
       THEN /\ event' = Respond(400, "none", "validation", reqIo)
            /\ UNCHANGED <<db, tasks>>
       ELSE /\ Len(db.requests) < MaxRequests
            /\ LET aiResult == prioritizeRequest(body, r).value
                   id == RequestId(Len(db.requests) + 1)
                   row == [id |-> id, title |-> body.title,
                           category |-> body.category, status |-> "PENDING"]
               IN  IF ~("priority" \in DOMAIN aiResult) /\ ~created
                   THEN /\ event' = Respond(500, "none", "PrismaClientValidationError",
                                            reqIo)
                        /\ UNCHANGED <<db, tasks>>
                   ELSE /\ db' = [db EXCEPT !.requests = Append(@, row)]
                        /\ IF ScoreThrows(aiResult)
                           THEN /\ event' = Respond(500, id, "TypeError", reqIo)
                                /\ UNCHANGED tasks
                           ELSE /\ tasks' = tasks \cup
                                      {[handler |-> "createRequest", request |-> id,
                                        io |-> reqIo, notified |-> 0]}
                                /\ event' = [name |-> "createRequest", request |-> id]
    /\ UNCHANGED <<io, sockets, rooms, sids>>

\* sendNotification({ userId: moderator.id, ... }) for the next moderator
SendNotification(task, unwritable) ==
    /\ task \in tasks
    /\ task.handler = "createRequest"
    /\ task.notified < Len(Moderators)
    /\ LET userId == Moderators[task.notified + 1]
       IN  /\ db' = [db EXCEPT !.notifications =
                        Append(@, [userId |-> userId, type |-> "REQUEST_UPDATE",
                                   request |-> task.request])]
           /\ event' = [name |-> "sendNotification", request |-> task.request,
                        userId |-> userId,
                        sent |-> emitNotification(userId, unwritable).sent]
    /\ tasks' = (tasks \ {task}) \cup {[task EXCEPT !.notified = @ + 1]}
    /\ UNCHANGED <<io, sockets, rooms, sids>>

\* the rest of createRequest: the emit to admins and the response
FinishCreateRequest(task, unwritable) ==
    /\ task \in tasks
    /\ task.handler = "createRequest"
    /\ task.notified = Len(Moderators)
    /\ tasks' = tasks \ {task}
    /\ event' = IF task.io = "server"
                THEN [name |-> "createRequest", status |-> 201,
                      request |-> task.request, cause |-> "none", io |-> task.io,
                      sent |-> Broadcast("admins", {}, "new-request", unwritable)]
                ELSE Respond(201, task.request, "none", task.io)
    /\ UNCHANGED <<io, sockets, rooms, sids, db>>

NextCreate ==
    \/ InitSocketServer /\ UNCHANGED <<gatewayVars, storeVars>>
    \/ \E s \in SocketIds, token \in Tokens :
          Connect(s, token) /\ UNCHANGED <<gatewayVars, storeVars>>
    \/ \E s \in SocketIds : Disconnect(s) /\ UNCHANGED <<gatewayVars, storeVars>>
    \/ \E body \in CreateBodies, r \in AiOutcomes, reqIo \in {"undefined", "server"},
          created \in BOOLEAN :
          CreateRequest(body, r, reqIo, created) /\ UNCHANGED gatewayVars
    \/ \E task \in tasks :
          \E unwritable \in SUBSET {s \in SocketIds : sockets[s].state = "connected"} :
              SendNotification(task, unwritable) /\ UNCHANGED gatewayVars
    \/ \E task \in tasks : \E unwritable \in SUBSET Members("admins") :
          FinishCreateRequest(task, unwritable) /\ UNCHANGED gatewayVars

SpecCreate == InitRooms /\ [][NextCreate]_vars

(***************************************************************************)
(* AuthController: requestOTP, forgotPassword, resetPassword               *)
(*                                                                         *)
(* db.users maps the email of an account to its row; a column that is null *)
(* holds "null" (resetToken) or 0 (resetExpires).  db.activityLog counts   *)
(* the rows of each action.  resetPassword awaits the lookup of the token, *)
(* the hash and the update: other handlers run between the lookup and the  *)
(* update, and tasks holds the calls that have found their user and have   *)
(* not updated it yet.                                                     *)
(***************************************************************************)
MaxTokens == 2
MaxOtps == 1
MaxTicks == 2

\* 1 * 60 * 60 * 1000 and 10 * 60 * 1000
resetLifetime == 3600000
otpLifetime == 600000
\* the step of the clock
HalfHour == resetLifetime \div 2

AccountEmails == {"ana@brgy.ph", "cora@brgy.ph"}
Emails == AccountEmails \cup {"nobody@brgy.ph"}
Passwords == {"Bago#Susi2", "Iba#Susi3"}

\* bcrypt.hash(password, 12)
Hash(password) == "$2a$12$" \o password

\* crypto.randomBytes(32).toString('hex'): a value not generated before
ResetToken(n) == "token" \o ToString(n)

EmailBodies == {[email |-> email] : email \in Emails} \cup {[name |-> "Ana"]}

ResetBodies ==
    [token : {ResetToken(n) : n \in 1..MaxTokens} \cup {"bogus"}, password : Passwords]
        \cup {[password |-> password] : password \in Passwords}

\* res.status(status).json({ success, message })
Json(status, success, message) ==
    [status |-> status, body |-> [success |-> success, message |-> message]]

InitAuth ==
    /\ GatewayIdle
    /\ NoSockets
    /\ db = [users |-> [email \in AccountEmails |->
                           [password |-> Hash("Luma#Susi1"), resetToken |-> "null",
                            resetExpires |-> 0]],
             otpTokens |-> {},
             activityLog |-> [OTP_REQUESTED |-> 0, PASSWORD_RESET_REQUESTED |-> 0,
                              PASSWORD_RESET |-> 0]]
    /\ tasks = {}

\* async requestOTP(req, res, next)
RequestOTP(body) ==
    /\ IF ~("email" \in DOMAIN body)
       THEN /\ event' = [name |-> "requestOTP", request |-> body,
                         response |-> Json(400, FALSE, "Email is required")]
            /\ UNCHANGED db
       ELSE IF body.email \notin DOMAIN db.users
       THEN /\ event' = [name |-> "requestOTP", request |-> body,
                         response |-> Json(200, TRUE,
                                           "If email exists, OTP will be sent")]
            /\ UNCHANGED db
       ELSE /\ db.activityLog.OTP_REQUESTED < MaxOtps
            /\ db' = [db EXCEPT
                        !.otpTokens = @ \cup {[userId |-> body.email,
                                               expires |-> now + otpLifetime,
                                               type |-> "VERIFICATION"]},
                        !.activityLog.OTP_REQUESTED = @ + 1]
            /\ event' = [name |-> "requestOTP", request |-> body,
                         response |-> Json(200, TRUE, "OTP sent successfully")]
    /\ UNCHANGED <<tasks, io, sockets, rooms, sids>>

\* async forgotPassword(req, res, next)
ForgotPassword(body) ==
    /\ IF ~("email" \in DOMAIN body)
       THEN /\ event' = [name |-> "forgotPassword", request |-> body,
                         response |-> Json(400, FALSE, "Email is required")]
            /\ UNCHANGED db
       ELSE IF body.email \notin DOMAIN db.users
       THEN /\ event' = [name |-> "forgotPassword", request |-> body,
                         response |-> Json(200, TRUE,
                             "If email exists, reset instructions will be sent")]
            /\ UNCHANGED db
       ELSE /\ db.activityLog.PASSWORD_RESET_REQUESTED < MaxTokens
            /\ LET resetToken == ResetToken(db.activityLog.PASSWORD_RESET_REQUESTED + 1)
               IN  /\ db' = [db EXCEPT
                               !.users[body.email].resetToken = resetToken,
                               !.users[body.email].resetExpires = now + resetLifetime,
                               !.activityLog.PASSWORD_RESET_REQUESTED = @ + 1]
                   /\ event' = [name |-> "forgotPassword", request |-> body,
                                response |-> Json(200, TRUE,
                                                  "Password reset instructions sent"),
                                mailed |-> resetToken]
    /\ UNCHANGED <<tasks, io, sockets, rooms, sids>>

\* resetPassword up to prisma.user.findFirst.  valid: what validatePassword
\* says of the password.
ResetPassword(body, valid) ==
    /\ IF ~({"token", "password"} \subseteq DOMAIN body)
       THEN /\ event' = [name |-> "resetPassword", request |-> body,
                         response |-> Json(400, FALSE,
                                           "Token and password are required")]
            /\ UNCHANGED tasks
       ELSE IF ~valid
       THEN /\ event' = [name |-> "resetPassword", request |-> body,
                         response |-> Json(400, FALSE, "passwordValidation.message")]
            /\ UNCHANGED tasks
       ELSE LET found == {email \in DOMAIN db.users :
                             /\ db.users[email].resetToken = body.token
                             /\ db.users[email].resetExpires > now}
            IN  IF found = {}
                THEN /\ event' = [name |-> "resetPassword", request |-> body,
                                  response |-> Json(400, FALSE,
                                                    "Invalid or expired token")]
                     /\ UNCHANGED tasks
                ELSE \E email \in found :
                        /\ tasks' = tasks \cup
                              {[handler |-> "resetPassword", user |-> email,
                                request |-> body]}
                        /\ event' = [name |-> "resetPassword", request |-> body,
                                     user |-> email]
    /\ UNCHANGED <<db, io, sockets, rooms, sids>>

\* the rest of resetPassword: the hash, prisma.user.update and the response
ResetPasswordUpdates(task) ==
    /\ task \in tasks
    /\ task.handler = "resetPassword"
    /\ db' = [db EXCEPT
                !.users[task.user] = [password |-> Hash(task.request.password),
                                      resetToken |-> "null", resetExpires |-> 0],
                !.activityLog.PASSWORD_RESET = @ + 1]
    /\ tasks' = tasks \ {task}
    /\ event' = [name |-> "resetPassword", request |-> task.request,
                 user |-> task.user,
                 response |-> Json(200, TRUE, "Password reset successful")]
    /\ UNCHANGED <<io, sockets, rooms, sids>>

\* time passes
Tick ==
    /\ now < MaxTicks * HalfHour
    /\ now' = now + HalfHour
    /\ event' = [name |-> "tick"]
    /\ UNCHANGED <<pc, op, args, response, result, logged, other, posts>>
    /\ UNCHANGED <<io, sockets, rooms, sids, db, tasks>>

NextRecover ==
    \/ \E body \in EmailBodies : RequestOTP(body) /\ UNCHANGED gatewayVars
    \/ \E body \in EmailBodies : ForgotPassword(body) /\ UNCHANGED gatewayVars
    \/ Tick

SpecRecover == InitAuth /\ [][NextRecover]_vars

NextReset ==
    \/ \E body \in EmailBodies : ForgotPassword(body) /\ UNCHANGED gatewayVars
    \/ \E body \in ResetBodies, valid \in BOOLEAN :
          ResetPassword(body, valid) /\ UNCHANGED gatewayVars
    \/ \E task \in tasks : ResetPasswordUpdates(task) /\ UNCHANGED gatewayVars
    \/ Tick

SpecReset == InitAuth /\ [][NextReset]_vars
(***************************************************************************)
(* Properties of the fallback classifier                                   *)
(***************************************************************************)
Classified == op = "fallbackPrioritization" /\ pc = "returned"

EmergencyCount == MatchCount(emergencyKeywords, RequestText(args))
HighCount == MatchCount(highPriorityKeywords, RequestText(args))

\* C4: whenever the lower-cased title+description contains at least one
\* emergency keyword, the fallback result is URGENT with score
\* min(0.99, 0.90 + 0.02 * emergencyCount) and reason "Contains N emergency
\* keyword(s)", whatever the category and the number of high-priority keywords.
C4_EmergencyAlwaysUrgent ==
    (Classified /\ EmergencyCount > 0) =>
        /\ result.priority = "URGENT"
        /\ result.score = Min(9900, 9000 + 200 * EmergencyCount)
        /\ result.reason =
              "Contains " \o ToString(EmergencyCount) \o " emergency keyword(s)"

\* an emergency keyword together with high-priority keywords and a category
\* that has a rule of its own
C4_Witness ==
    /\ Classified
    /\ EmergencyCount = 1
    /\ HighCount >= 2
    /\ args.category = "MEDICAL"
    /\ result.priority = "URGENT"
    /\ result.score = 9200

\* C5: the fallback score lies in [0, 0.99], has two decimal places and never
\* reaches 1.0, also when every keyword of both sets matches.
C5_ScoreRange ==
    Classified =>
        /\ result.score >= 0
        /\ result.score <= 9900
        /\ result.score % 100 = 0

\* every keyword of both sets matches and the score is the cap
C5_Witness ==
    /\ Classified
    /\ EmergencyCount = Len(emergencyKeywords)
    /\ HighCount = Len(highPriorityKeywords)
    /\ result.score = 9900

HighRuleApplies ==
    /\ Classified
    /\ EmergencyCount = 0
    /\ (HighCount > 0 \/ args.category \in {"MEDICAL", "EMERGENCY"})

\* C6 as stated: with no emergency keyword and (high-priority count > 0 or
\* category MEDICAL or EMERGENCY) the result is HIGH with score
\* min(0.99, 0.70 + 0.05 * N) and reason "Contains N high-priority keyword(s)",
\* N = 0 included.
C6_Original ==
    HighRuleApplies =>
        /\ result.priority = "HIGH"
        /\ result.score = Min(9900, 7000 + 500 * HighCount)
        /\ result.reason =
              "Contains " \o ToString(HighCount) \o " high-priority keyword(s)"

\* C6: as C6_Original, but the reason is "Contains N high-priority keyword(s)"
\* only for N > 0; for N = 0 (the rule reached through category MEDICAL or
\* EMERGENCY alone) the reason is "Category-based priority: <category>".
C6_HighRule ==
    HighRuleApplies =>
        /\ result.priority = "HIGH"
        /\ result.score = Min(9900, 7000 + 500 * HighCount)
        /\ result.reason =
              IF HighCount > 0
              THEN "Contains " \o ToString(HighCount) \o " high-priority keyword(s)"
              ELSE "Category-based priority: " \o args.category

\* the rule reached through the category alone
C6_Witness ==
    /\ HighRuleApplies
    /\ HighCount = 0
    /\ args.category = "EMERGENCY"
    /\ result.priority = "HIGH"
    /\ result.score = 7000

\* C7: with no emergency and no high-priority keyword and a category other
\* than MEDICAL and EMERGENCY: FOOD gives HIGH 0.75, EDUCATION and LEGAL give
\* MEDIUM 0.60, every other category LOW 0.40; the reason is "Category-based
\* priority: <category>" and suggestedCategory is the input category.
C7_CategoryRules ==
    (/\ Classified
     /\ EmergencyCount = 0
     /\ HighCount = 0
     /\ args.category \notin {"MEDICAL", "EMERGENCY"}) =>
        /\ result.priority = CASE args.category = "FOOD" -> "HIGH"
                               [] args.category \in {"EDUCATION", "LEGAL"} -> "MEDIUM"
                               [] OTHER -> "LOW"
        /\ result.score = CASE args.category = "FOOD" -> 7500
                            [] args.category \in {"EDUCATION", "LEGAL"} -> 6000
                            [] OTHER -> 4000
        /\ result.reason = "Category-based priority: " \o args.category
        /\ result.suggestedCategory = args.category

C7_Witness ==
    /\ Classified
    /\ EmergencyCount = 0
    /\ HighCount = 0
    /\ args.category = "FOOD"
    /\ result.priority = "HIGH"
    /\ result.score = 7500
    /\ result.suggestedCategory = "FOOD"

Rank(priority) ==
    CASE priority = "URGENT" -> 4
      [] priority = "HIGH" -> 3
      [] priority = "MEDIUM" -> 2
      [] priority = "LOW" -> 1

BothClassified ==
    /\ Classified
    /\ "request" \in DOMAIN other
    /\ other.result # NoResult

OtherHighCount == MatchCount(highPriorityKeywords, RequestText(other.request))

\* C8 as stated: of two fallback results, the one with the higher priority
\* (URGENT > HIGH > MEDIUM > LOW) has a score at least as large.
C8_Original ==
    BothClassified =>
        /\ Rank(result.priority) > Rank(other.result.priority)
              => result.score >= other.result.score
        /\ Rank(other.result.priority) > Rank(result.priority)
              => other.result.score >= result.score

\* C8: the score is monotone in the priority except that a HIGH result from
\* five or more high-priority keywords (0.95 or 0.99) may exceed an URGENT
\* result: the higher priority has the score at least as large whenever the
\* lower one is not a HIGH result with five or more high-priority keywords.
C8_MonotoneScore ==
    BothClassified =>
        /\ (/\ Rank(result.priority) > Rank(other.result.priority)
            /\ ~(other.result.priority = "HIGH" /\ OtherHighCount >= 5))
              => result.score >= other.result.score
        /\ (/\ Rank(other.result.priority) > Rank(result.priority)
            /\ ~(result.priority = "HIGH" /\ HighCount >= 5))
              => other.result.score >= result.score

\* an URGENT result next to a HIGH result from one to four keywords
C8_Witness ==
    /\ BothClassified
    /\ result.priority = "URGENT"
    /\ other.result.priority = "HIGH"
    /\ OtherHighCount \in 1..4
    /\ result.score >= other.result.score

(***************************************************************************)
(* Properties of the fallback resource prediction                          *)
(***************************************************************************)
Predicted == op = "fallbackResourcePrediction" /\ pc = "returned"

KnownDisasterTypes == {"FLOOD", "EARTHQUAKE", "FIRE", "TYPHOON", "MEDICAL"}

\* The stated per-type formulas, resource |-> <<numerator, denominator>> of
\* the factor applied to the population P (water is water_liters and
\* volunteers is volunteers_needed in the result).
StatedFormulas ==
    [ FLOOD |->
        [ water_liters |-> <<5, 1>>, food_rations |-> <<3, 1>>, blankets |-> <<1, 1>>,
          first_aid_kits |-> <<1, 50>>, emergency_kits |-> <<1, 10>>,
          volunteers_needed |-> <<1, 100>>, boats |-> <<1, 500>>,
          life_jackets |-> <<1, 2>> ],
      EARTHQUAKE |->
        [ tents |-> <<1, 5>>, first_aid_kits |-> <<1, 20>>, rescue_teams |-> <<1, 500>>,
          heavy_equipment |-> <<1, 1000>>, volunteers_needed |-> <<1, 50>>,
          blankets |-> <<2, 1>>, food_rations |-> <<2, 1>>, water_liters |-> <<3, 1>> ],
      FIRE |->
        [ temporary_shelter |-> <<1, 10>>, clothing |-> <<1, 1>>,
          food_rations |-> <<2, 1>>, counseling_teams |-> <<1, 100>>,
          volunteers_needed |-> <<1, 75>>, first_aid_kits |-> <<1, 30>>,
          blankets |-> <<1, 1>> ],
      TYPHOON |->
        [ water_liters |-> <<4, 1>>, canned_goods |-> <<7, 1>>,
          emergency_kits |-> <<1, 1>>, generators |-> <<1, 200>>,
          volunteers_needed |-> <<1, 80>>, first_aid_kits |-> <<1, 40>>,
          blankets |-> <<3, 2>> ],
      MEDICAL |->
        [ first_aid_kits |-> <<1, 10>>, masks |-> <<10, 1>>,
          sanitizer_liters |-> <<1, 5>>, volunteers_needed |-> <<1, 50>>,
          ambulance_units |-> <<1, 1000>> ] ]

StatedDefault ==
    [ water_liters |-> <<3, 1>>, food_rations |-> <<2, 1>>, blankets |-> <<1, 1>>,
      first_aid_kits |-> <<1, 30>>, volunteers_needed |-> <<1, 100>>,
      emergency_kits |-> <<1, 20>> ]

AtLeastOne == {"boats", "ambulance_units"}

\* q is P * factor rounded up to the next integer
RoundedUp(q, P, factor) ==
    /\ q * factor[2] >= P * factor[1]
    /\ (q - 1) * factor[2] < P * factor[1]

\* quantities is the table of stated formulas applied to P
FollowsTable(quantities, table, P) ==
    /\ DOMAIN quantities = DOMAIN table
    /\ \A r \in DOMAIN table :
          IF r \in AtLeastOne /\ P * table[r][1] <= table[r][2]
          THEN quantities[r] = 1
          ELSE RoundedUp(quantities[r], P, table[r])

\* C9: for each known disaster type and every population P >= 0 the fallback
\* prediction gives, for each resource, the stated linear formula rounded up,
\* boats and ambulance_units at least 1 also for P = 0; FLOOD with P = 100
\* gives water 500, food_rations 300, blankets 100, boats 1, life_jackets 50.
C9_KnownTypeFormulas ==
    (Predicted /\ args.disasterType \in KnownDisasterTypes) =>
        /\ FollowsTable(result.predictions, StatedFormulas[args.disasterType],
                        args.affectedPopulation)
        /\ (args.disasterType = "FLOOD" /\ args.affectedPopulation = 100) =>
              /\ result.predictions.water_liters = 500
              /\ result.predictions.food_rations = 300
              /\ result.predictions.blankets = 100
              /\ result.predictions.boats = 1
              /\ result.predictions.life_jackets = 50

\* a population that is no multiple of the divisors, where rounding up shows
C9_Witness ==
    /\ Predicted
    /\ args.disasterType = "FLOOD"
    /\ args.affectedPopulation = 501
    /\ result.predictions.boats = 2
    /\ result.predictions.first_aid_kits = 11
    /\ result.predictions.life_jackets = 251

\* C10: for every disaster type that is not exactly FLOOD, EARTHQUAKE, FIRE,
\* TYPHOON or MEDICAL the fallback prediction uses the default table
\* (water 3P, food_rations 2P, blankets P, first_aid_kits P/30,
\* volunteers P/100, emergency_kits P/20, rounded up).
C10_DefaultTable ==
    (Predicted /\ args.disasterType \notin KnownDisasterTypes) =>
        /\ DOMAIN result.predictions = DOMAIN StatedDefault
        /\ FollowsTable(result.predictions, StatedDefault, args.affectedPopulation)
        /\ (args.disasterType = "UNKNOWN_TYPE" /\ args.affectedPopulation = 10) =>
              /\ result.predictions.water_liters = 30
              /\ result.predictions.food_rations = 20
              /\ result.predictions.blankets = 10

(***************************************************************************)
(* Properties of the gateway operations                                    *)
(***************************************************************************)
GatewayMethods == {"prioritizeRequest", "getChatbotResponse", "predictResourceNeeds"}

Settled == op \in GatewayMethods /\ pc \in {"returned", "raised"}

\* the value a direct call of the method's fallback returns for the arguments
DirectFallback ==
    CASE op = "prioritizeRequest" -> fallbackPrioritization(args)
      [] op = "getChatbotResponse" -> fallbackChatbotResponse(args.query, now)
      [] op = "predictResourceNeeds" ->
            fallbackResourcePrediction(args.disasterType, args.affectedPopulation, now)

\* C1: whenever the external call fails by a network error or by the timeout,
\* the gateway operation returns exactly what a direct call of its fallback
\* returns for the same inputs.
C1_FailureReturnsFallback ==
    (Settled /\ response.settled = "rejected") =>
        /\ pc = "returned"
        /\ result = DirectFallback

\* the timeout fired on a classification
C1_Witness ==
    /\ pc = "returned"
    /\ op = "prioritizeRequest"
    /\ response.settled = "rejected"
    /\ response.error = "ECONNABORTED"
    /\ now = timeout
    /\ result.priority = "URGENT"

\* C2: no gateway operation raises outward: for every outcome of the external
\* call and every payload each of the three operations finishes by returning
\* a value, at the latest when the timeout expires.
C2_NeverRaises ==
    /\ [](pc # "raised")
    /\ [](Settled => (result # NoResult /\ now <= timeout))
    /\ [][pc = "awaiting" => pc' = "returned"]_vars

\* a body of null, whose field reads throw inside the try block
C2_Witness ==
    /\ pc = "returned"
    /\ op = "prioritizeRequest"
    /\ response.settled = "resolved"
    /\ response.data = JsNull
    /\ logged = <<"info", "warn">>

\* a response that arrived in time but lacks priority, score or reason
Malformed ==
    /\ response.settled = "resolved"
    /\ \/ response.data.type # "object"
       \/ ~({"priority", "score", "reason"} \subseteq DOMAIN response.data.fields)

\* C3: a malformed response is treated like a network error or a timeout: the
\* gateway returns the fallback result, never one built from the response.
C3_MalformedReturnsFallback ==
    (Settled /\ op = "prioritizeRequest" /\ Malformed) =>
        /\ pc = "returned"
        /\ result = DirectFallback

(***************************************************************************)
(* Properties of the conversational fallback                               *)
(***************************************************************************)
Matched == op = "fallbackChatbotResponse" /\ pc = "returned"

\* entry i of the list has one of its substrings in the lower-cased query
EntryHit(i) ==
    \E k \in DOMAIN responses[i].patterns :
        Includes(ToLowerCase(args.query), responses[i].patterns[k])

IsReplyOf(reply, i) ==
    /\ reply.response = responses[i].response
    /\ reply.confidence = responses[i].confidence
    /\ reply.suggested_actions = responses[i].actions
    /\ reply.sources = <<"BarangayLink FAQ Database">>

\* C11: the matcher is first-match-wins over the fixed ordered list: the reply
\* is that of the earliest entry with a substring contained in the lower-cased
\* query, also when later entries match; a query containing "kamusta" gets the
\* greeting entry (confidence 0.9).
C11_FirstMatchWins ==
    Matched =>
        /\ \A i \in DOMAIN responses :
              (EntryHit(i) /\ \A j \in 1..(i - 1) : ~EntryHit(j))
                  => IsReplyOf(result, i)
        /\ Includes(ToLowerCase(args.query), "kamusta")
              => (IsReplyOf(result, 1) /\ result.confidence = 9000)

\* "kamusta" after the term of a later entry: both entries match
C11_Witness ==
    /\ Matched
    /\ args.query = "food Kamusta"
    /\ EntryHit(1)
    /\ EntryHit(4)
    /\ result.confidence = 9000
    /\ result.response = "Hello! How can I help you with BarangayLink today?"

EntryConfidences == {responses[i].confidence : i \in DOMAIN responses}

\* C12: when no entry matches, the reply is the default one (confidence 0.3,
\* no sources, the generic suggested actions); for every query the confidence
\* is 0.3 or the fixed value of an entry, which lies between 0.7 and 0.95.
C12_DefaultReply ==
    Matched =>
        /\ (\A i \in DOMAIN responses : ~EntryHit(i)) =>
              /\ result.confidence = 3000
              /\ result.sources = << >>
              /\ result.suggested_actions =
                    <<"Contact Support", "Browse FAQ", "Submit General Inquiry">>
        /\ result.confidence \in {3000} \cup EntryConfidences
        /\ \A c \in EntryConfidences : c >= 7000 /\ c <= 9500
        /\ result.confidence = 3000 <=> \A i \in DOMAIN responses : ~EntryHit(i)

C12_Witness ==
    /\ Matched
    /\ args.query = "zzz zzz"
    /\ \A i \in DOMAIN responses : ~EntryHit(i)
    /\ result.confidence = 3000
    /\ result.sources = << >>

(***************************************************************************)
(* Properties of the rooms                                                 *)
(***************************************************************************)
Connected(s) == sockets[s].state = "connected"

\* C13: a socket that has just connected is in the room user-<userId> of its
\* user, in the room named by its role in lower case, and in the room admins
\* if and only if its role is ADMIN or MODERATOR; as long as it is connected
\* it is in admins only with one of these roles.
C13_ConnectionJoins ==
    /\ event.name = "connection" =>
          LET s == event.socket
              user == sockets[s].user
          IN  /\ Connected(s)
              /\ s \in Members(UserRoom(user.id))
              /\ s \in Members(ToLowerCase(user.role))
              /\ s \in Members("admins") <=> user.role \in {"ADMIN", "MODERATOR"}
    /\ \A s \in Members("admins") :
          Connected(s) /\ sockets[s].user.role \in {"ADMIN", "MODERATOR"}

C13_Witness ==
    /\ event.name = "connection"
    /\ sockets[event.socket].user.role = "ADMIN"
    /\ event.socket \in Members("admins") \cap Members("admin") \cap Members("user-u1")
    /\ \E s \in SocketIds :
          /\ Connected(s)
          /\ sockets[s].user.role = "MEMBER"
          /\ s \in Members("member") \ Members("admins")

InNoRoom(s) == sids[s] = {} /\ \A room \in RoomKeys : rooms[room][s] = 0

OthersKeepRooms(s) ==
    /\ \A t \in SocketIds \ {s} : sids'[t] = sids[t] /\ sockets'[t] = sockets[t]
    /\ \A room \in RoomKeys : \A t \in SocketIds \ {s} :
          rooms'[room][t] = rooms[room][t]

\* C14: a socket that is not connected is in no room; the disconnect of a
\* connected socket takes it out of every room and ends it, leaving the other
\* sockets where they are; the disconnect of a socket that is not connected
\* (closed before, refused, never seen) changes nothing.
C14_DisconnectLeavesAll ==
    /\ [](\A s \in SocketIds : ~Connected(s) => InNoRoom(s))
    /\ [][\A s \in SocketIds :
            (event'.name = "disconnect" /\ event'.socket = s) =>
                /\ ~Connected(s)'
                /\ InNoRoom(s)'
                /\ OthersKeepRooms(s)
                /\ ~Connected(s) =>
                      UNCHANGED <<sockets, rooms, sids, io>>
         ]_vars

C14_Witness ==
    /\ event.name = "disconnect"
    /\ ~event.connected
    /\ sockets[event.socket].state = "disconnected"
    /\ InNoRoom(event.socket)
    /\ \E t \in SocketIds : Connected(t) /\ t \in Members("admins")

\* C15: a socket is in a room at most once; after a join-request or join-chat
\* event the socket is in the named room exactly once; a join of a room the
\* socket is in already changes neither the rooms nor the sockets.
C15_JoinIdempotent ==
    /\ [](\A room \in RoomKeys : \A s \in SocketIds : rooms[room][s] <= 1)
    /\ [](event.name \in {"join-request", "join-chat"} =>
            /\ rooms[event.room][event.socket] = 1
            /\ event.room \in sids[event.socket])
    /\ [][(event'.name \in {"join-request", "join-chat"} /\ event'.rejoin) =>
            UNCHANGED <<sockets, rooms, sids, io>>]_vars

C15_Witness ==
    /\ event.name = "join-request"
    /\ event.rejoin
    /\ rooms["request-r1"][event.socket] = 1
    /\ Cardinality(Members("request-r1")) = 2

\* C17: a connected socket is in the room of its user and in the room of its
\* role; a socket leaves a room only by ceasing to be connected.
C17_MembershipAdditive ==
    /\ [](\A s \in SocketIds : Connected(s) =>
            /\ s \in Members(UserRoom(sockets[s].user.id))
            /\ s \in Members(ToLowerCase(sockets[s].user.role)))
    /\ [][\A s \in SocketIds : \A room \in RoomKeys :
            (rooms[room][s] > 0 /\ rooms'[room][s] = 0) =>
                /\ ~Connected(s)'
                /\ event'.name \in {"disconnect", "close"}]_vars

C17_Witness ==
    /\ event.name = "join-chat"
    /\ Connected(event.socket)
    /\ sids[event.socket] =
          {event.socket, "user-u3", "member", "request-r1", "chat-c1"}
    /\ \E s \in SocketIds : sockets[s].state = "disconnected"

(***************************************************************************)
(* Properties of emitting to a room                                        *)
(***************************************************************************)
HelperNames == {"emitNotification", "broadcastToAdmins", "updateRequestStatus"}

\* C18: a helper's emit is written to the sockets that are in the target room
\* when it is called, and to no other socket; when no socket failed these are
\* all of them; for a room without sockets the helper returns, logs no error
\* and writes to nobody; the emit changes no room, and the events that are no
\* emits (connection, joins, disconnect) write no packet to anyone.
C18_DeliversToMembers ==
    /\ [][event'.name \in HelperNames =>
            /\ event'.sent.attempted = Members(event'.sent.room)
            /\ event'.sent.delivered \subseteq Members(event'.sent.room)
            /\ event'.sent.unwritable = {} =>
                  event'.sent.delivered = Members(event'.sent.room)
            /\ Members(event'.sent.room) = {} =>
                  /\ event'.sent.delivered = {}
                  /\ event'.returned
                  /\ io # "undefined" => event'.logged = "debug"
            /\ UNCHANGED <<io, sockets, rooms, sids>>
         ]_vars
    /\ [](event.name \notin HelperNames => ~("sent" \in DOMAIN event))

C18_Witness ==
    /\ event.name = "updateRequestStatus"
    /\ event.sent.room = "request-r1"
    /\ event.sent.delivered = Members("request-r1")
    /\ Cardinality(event.sent.delivered) = 1
    /\ \A s \in SocketIds : Connected(s)

\* C19: each helper returns to its caller whatever the state of io is; when
\* io was never initialised it logs an error and writes to nobody; a socket
\* of the target room that cannot be written to does not keep the packet from
\* the other sockets of the room.
C19_NeverHardFailure ==
    /\ [](event.name \in HelperNames =>
            /\ event.returned
            /\ io = "undefined" =>
                  event.logged = "error" /\ event.sent.delivered = {})
    /\ [][event'.name \in HelperNames =>
            \A s \in Members(event'.sent.room) \ event'.sent.unwritable :
                s \in event'.sent.delivered]_vars

C19_Witness ==
    /\ event.name = "broadcastToAdmins"
    /\ event.returned
    /\ event.sent.unwritable # {}
    /\ event.sent.delivered # {}

\* C20: a typing event is emitted as user-typing, with the sender's user id,
\* to the sockets that are in chat-<chatId> when it is handled, the sender
\* left out; the sender is written to neither when it is in the room nor when
\* it is not.
C20_TypingExcludesSender ==
    /\ [](event.name = "typing" =>
            /\ event.sent.emit = "user-typing"
            /\ event.sent.room \in {ChatRoom(chatId) : chatId \in ChatIds}
            /\ event.payload.userId = sockets[event.socket].user.id
            /\ event.socket \notin event.sent.attempted
            /\ event.socket \notin event.sent.delivered)
    /\ [][\A s \in SocketIds :
            (event'.name = "typing" /\ event'.socket = s) =>
                /\ event'.sent.attempted = Members(event'.sent.room) \ {s}
                /\ event'.sent.delivered =
                      (Members(event'.sent.room) \ {s}) \ event'.sent.unwritable
         ]_vars

C20_Witness ==
    /\ event.name = "typing"
    /\ event.socket \in Members(event.sent.room)
    /\ event.sent.delivered = Members(event.sent.room) \ {event.socket}
    /\ event.sent.delivered # {}

(***************************************************************************)
(* Properties of private messages                                          *)
(***************************************************************************)
\* C21: a private-message is emitted to the room user-<to> only in the step
\* in which its row has been added to the message table, and it carries that
\* row; when the creation of the row fails the table is unchanged and the
\* only emit is error to the sending socket.
C21_StoreThenFanout ==
    [][\A s \in SocketIds :
         (event'.name = "private-message" /\ event'.socket = s
             /\ "sent" \in DOMAIN event') =>
            /\ event'.sent.emit = "private-message" =>
                  /\ event'.stored
                  /\ Len(db.messages') = Len(db.messages) + 1
                  /\ LET row == db.messages'[Len(db.messages')]
                     IN  /\ event'.sent.room = UserRoom(row.receiverId)
                         /\ event'.payload = [from |-> row.senderId,
                                              message |-> row.content,
                                              type |-> row.messageType]
                  /\ event'.sent.attempted = Members(event'.sent.room)
            /\ ~event'.stored =>
                  /\ db' = db
                  /\ event'.sent.emit = "error"
                  /\ event'.sent.room = s
                  /\ event'.sent.delivered \subseteq {s}
      ]_vars

C21_Witness ==
    /\ event.name = "private-message"
    /\ "sent" \in DOMAIN event
    /\ event.stored
    /\ Len(db.messages) = 1
    /\ event.sent.room = "user-u1"
    /\ event.sent.delivered # {}
    /\ event.socket \notin event.sent.delivered

(***************************************************************************)
(* Properties of createRequest                                             *)
(***************************************************************************)
NotifiedOf(requestId) ==
    {db.notifications[i].userId :
        i \in {j \in DOMAIN db.notifications :
                  db.notifications[j].request = requestId}}

\* the new-request event is emitted only when every verified moderator and
\* admin has a notification row for the request
RecordedBeforeEmitted ==
    (event.name = "createRequest" /\ "sent" \in DOMAIN event) =>
        ModeratorIds \subseteq NotifiedOf(event.request)

\* C22: the notification rows of all verified moderators and admins exist
\* when new-request is emitted; a request with a valid body that is handled
\* without req.io, or while no socket is in admins, is answered with 201 and
\* has these rows.
C22_DeliveredOrRecorded ==
    /\ RecordedBeforeEmitted
    /\ (event.name = "createRequest" /\ "status" \in DOMAIN event
            /\ event.cause # "validation"
            /\ (event.io = "undefined" \/ Members("admins") = {})) =>
          /\ event.status = 201
          /\ ModeratorIds \subseteq NotifiedOf(event.request)

(***************************************************************************)
(* Properties of the result shapes                                         *)
(***************************************************************************)
\* the field names of a returned value: those of the object the method built
\* or, where the method returns response.data as it is, those of the body
FieldsOf(value) ==
    IF DOMAIN value \in {{"type"}, {"type", "fields"}, {"type", "chars"}}
    THEN IF value.type = "object" THEN DOMAIN value.fields ELSE {}
    ELSE DOMAIN value

\* a JSON object that has every field the method reads from it
CompleteBody ==
    /\ response.settled = "resolved"
    /\ response.data.type = "object"
    /\ op = "prioritizeRequest" =>
          {PrioritizeFields[n] : n \in DOMAIN PrioritizeFields}
              \subseteq DOMAIN response.data.fields
    /\ op = "getChatbotResponse" =>
          {ChatFields[n] : n \in DOMAIN ChatFields}
              \subseteq DOMAIN response.data.fields

\* C23: for each gateway operation the value returned for a complete body of
\* the external service has the fields of the value its fallback returns.
C23_SameShape ==
    (Settled /\ pc = "returned" /\ CompleteBody) =>
        FieldsOf(result) = FieldsOf(DirectFallback)

(***************************************************************************)
(* Properties of the handshake                                             *)
(***************************************************************************)
\* the row of a user who may connect
MayConnect(userId) ==
    \E u \in Users : u.id = userId /\ u.isVerified /\ u.isActive # FALSE

\* C24: a connected socket carries the user of a signed token whose row
\* exists, is verified and is not deactivated; a socket becomes connected
\* only by a handshake with such a token; a refused handshake leaves the
\* socket without rooms and changes no room.
C24_SessionOnlyAfterHandshake ==
    /\ [](\A s \in SocketIds :
            /\ Connected(s) => MayConnect(sockets[s].user.id)
            /\ ~Connected(s) => InNoRoom(s))
    /\ [][\A s \in SocketIds :
            /\ (~Connected(s) /\ Connected(s)') =>
                  /\ event' = [name |-> "connection", socket |-> s]
                  /\ \E token \in Tokens :
                        /\ token.kind = "signed"
                        /\ MayConnect(token.payload.userId)
                        /\ sockets'[s].user =
                              [id |-> token.payload.userId,
                               email |-> token.payload.email,
                               role |-> token.payload.role]
            /\ (event'.name = "connect_error" /\ event'.socket = s) =>
                  /\ sockets'[s] = [state |-> "refused"]
                  /\ rooms' = rooms
                  /\ sids' = sids
         ]_vars

C24_Witness ==
    /\ event.name = "connect_error"
    /\ event.error = "Authentication error: Invalid user"
    /\ sockets[event.socket].state = "refused"
    /\ InNoRoom(event.socket)
    /\ \E s \in SocketIds : Connected(s) /\ sids[s] # {}

(***************************************************************************)
(* Properties of the outbound calls                                        *)
(***************************************************************************)
\* number of times the catch block ran: it logs one warning and calls the
\* fallback once
Fallbacks == Cardinality({i \in DOMAIN logged : logged[i] = "warn"})

\* C25 as stated: every invocation makes exactly one outbound call and
\* invokes the fallback at most once.
C25_Original ==
    Settled => (posts = 1 /\ Fallbacks <= 1)

\* C25: an invocation makes at most one outbound call: exactly one, unless
\* building the request throws (getChatbotResponse with a null context), in
\* which case it makes none; once the call has settled the method returns
\* without another call; the fallback is invoked at most once.
C25_AtMostOneCall ==
    /\ [](posts <= 1 /\ Fallbacks <= 1)
    /\ [](Settled =>
            /\ posts = 1 <=> response.settled # "none"
            /\ posts = 0 => (op = "getChatbotResponse" /\ ReadThrows(args.context)))
    /\ [][pc = "awaiting" => (pc' = "returned" /\ posts' = posts)]_vars

C25_Witness ==
    /\ Settled
    /\ response.settled = "rejected"
    /\ posts = 1
    /\ Fallbacks = 1
    /\ result = DirectFallback

(***************************************************************************)
(* Properties of the room index under interleaved connections, joins and   *)
(* disconnections                                                          *)
(***************************************************************************)
\* C26: whatever the order in which the sockets connect, join and disconnect,
\* a socket id is in a room's set exactly when the socket is connected and
\* the room is one of the rooms it joined; it is there once; a socket that
\* is not connected is in no room.
C26_IndexConsistent ==
    /\ \A s \in SocketIds, room \in RoomKeys :
          /\ s \in Members(room) <=> (Connected(s) /\ room \in sids[s])
          /\ rooms[room][s] <= 1
    /\ \A s \in SocketIds : ~Connected(s) => InNoRoom(s)

C26_Witness ==
    /\ \E s \in SocketIds :
          /\ sockets[s].state = "disconnected"
          /\ InNoRoom(s)
    /\ \E s \in SocketIds :
          /\ Connected(s)
          /\ RequestRoom("r1") \in sids[s]
          /\ Members(RequestRoom("r1")) = {s}
    /\ event.name = "disconnect" /\ event.connected

(***************************************************************************)
(* Properties of the keyword count                                         *)
(***************************************************************************)
KeywordsIn(keywords, text) ==
    {keyword \in {keywords[i] : i \in DOMAIN keywords} : Includes(text, keyword)}

\* C27: the count the classifier uses is the number of distinct keywords
\* that occur in the lower-cased title, space, description: a keyword that
\* occurs twice counts once, and a keyword inside another ("emergency" in
\* "emergency room", "water" in "no water") counts beside it; with k > 0
\* emergency keywords the result is URGENT with score min(0.99, 0.90+0.02k),
\* so "There is a fire emergency" / "need help now" / OTHER is URGENT, 0.94.
C27_DistinctKeywordCount ==
    (pc = "returned" /\ op = "fallbackPrioritization") =>
        LET text == ToLowerCase(args.title \o " " \o args.description)
            k == Cardinality(KeywordsIn(emergencyKeywords, text))
            h == Cardinality(KeywordsIn(highPriorityKeywords, text))
        IN  /\ k > 0 =>
                /\ result.priority = "URGENT"
                /\ result.score = Min(9900, 9000 + 200 * k)
                /\ result.reason = "Contains " \o ToString(k) \o " emergency keyword(s)"
            /\ (k = 0 /\ h > 0) =>
                /\ result.priority = "HIGH"
                /\ result.score = Min(9900, 7000 + 500 * h)
                /\ result.reason = "Contains " \o ToString(h) \o " high-priority keyword(s)"
            /\ args.title = "Fire Fire" /\ args.description = "" => k = 1
            /\ args.title = "emergency room" /\ args.description = "" => k = 2
            /\ args.title = "no water" /\ args.description = "" => k = 0 /\ h = 2
            /\ (args.title = "There is a fire emergency"
                    /\ args.description = "need help now" /\ args.category = "OTHER") =>
                /\ k = 2
                /\ result.priority = "URGENT"
                /\ result.score = 9400

C27_Witness ==
    /\ pc = "returned"
    /\ op = "fallbackPrioritization"
    /\ args = [title |-> "There is a fire emergency",
               description |-> "need help now", category |-> "OTHER"]
    /\ result.priority = "URGENT"
    /\ result.score = 9400
    /\ result.reason = "Contains 2 emergency keyword(s)"

(***************************************************************************)
(* Properties of the rooms a client can reach                              *)
(***************************************************************************)
StartsWith(s, prefix) ==
    Len(s) >= Len(prefix) /\ SubSeq(s, 1, Len(prefix)) = prefix

ClientRoom(room) == StartsWith(room, "request-") \/ StartsWith(room, "chat-")

\* C28: a socket is in the room admins only if the role of its token is
\* ADMIN or MODERATOR, and in a room user-<id> only if <id> is the user id
\* of its token; a join-request or join-chat event, whatever id it carries,
\* adds the socket to a room whose key starts with request- or chat- and
\* changes no other room.
C28_ClientRoomsOnly ==
    /\ [](/\ \A s \in Members("admins") :
                Connected(s) /\ sockets[s].user.role \in {"ADMIN", "MODERATOR"}
          /\ \A id \in UserIds : \A s \in Members(UserRoom(id)) :
                Connected(s) /\ sockets[s].user.id = id)
    /\ [][event'.name \in {"join-request", "join-chat"} =>
            /\ ClientRoom(event'.room)
            /\ \A s \in SocketIds : sids'[s] \ sids[s] \subseteq {event'.room}
            /\ \A room \in RoomKeys :
                  room # event'.room => rooms'[room] = rooms[room]
         ]_vars

C28_Witness ==
    \E s, t \in SocketIds :
        /\ Connected(s) /\ sockets[s].user.role = "MEMBER"
        /\ Connected(t) /\ sockets[t].user.id = "u1"
        /\ {RequestRoom("admins"), ChatRoom("user-u1")} \subseteq sids[s]
        /\ Members("admins") = {t}
        /\ Members(UserRoom("u1")) = {t}
        /\ event.name = "join-request" /\ event.socket = s
        /\ event.room = RequestRoom("admins")

(***************************************************************************)
(* Properties of the account recovery handlers                             *)
(***************************************************************************)
Registered(email) == email \in AccountEmails

\* C29: forgotPassword and requestOTP answer a registered and an
\* unregistered email with the same status and body: two calls of the same
\* handler, one after the other, one with the email of an account and one
\* with an email of no account, get the same response.
C29_SameResponse ==
    [][(/\ event.name \in {"forgotPassword", "requestOTP"}
        /\ event'.name = event.name
        /\ "email" \in DOMAIN event.request
        /\ "email" \in DOMAIN event'.request
        /\ Registered(event.request.email) # Registered(event'.request.email))
          => event'.response = event.response
     ]_vars

\* an account holds the token; its expiry is in the future
Held(token) == \E email \in AccountEmails : db.users[email].resetToken = token

Live(token) ==
    \E email \in AccountEmails :
        /\ db.users[email].resetToken = token
        /\ db.users[email].resetExpires > now

Answered(e, status) ==
    /\ e.name = "resetPassword"
    /\ "response" \in DOMAIN e
    /\ e.response.status = status

\* C30: a reset token changes a password at most once: a resetPassword that
\* succeeds does so with a token an account holds at that moment, so not
\* with a token that was used before or was replaced by a later
\* forgotPassword; a resetPassword that looks up a token no account holds,
\* or whose expiry has passed, is answered 400 "Invalid or expired token";
\* a rejected call leaves the stored passwords as they are, and only a
\* successful resetPassword changes one.
C30_TokenUsedOnce ==
    /\ [][Answered(event', 200) => Held(event'.request.token)]_vars
    /\ [][(/\ event'.name = "resetPassword"
           /\ db' = db
           /\ "token" \in DOMAIN event'.request
           /\ ~Live(event'.request.token))
             => /\ Answered(event', 400)
                /\ event'.response.body.message
                      \in {"Invalid or expired token", "passwordValidation.message"}
        ]_vars
    /\ [][Answered(event', 400) => db' = db]_vars
    /\ [][(\E email \in AccountEmails :
              db'.users[email].password # db.users[email].password)
             => Answered(event', 200)
        ]_vars

====
